---- MODULE Spec2Model ----
(***************************************************************************)
(* A model of ectar: the streaming chunked erasure pipeline (tar -> zstd   *)
(* -> chunk writer -> Reed-Solomon -> shard files with zfec headers) and   *)
(* the consumer side (shard discovery -> decode -> decompress -> untar).   *)
(***************************************************************************)
EXTENDS Integers, Sequences, FiniteSets, TLC

VARIABLES
    hdr,        \* the zfec header codec under test: input, bytes, decoded
    cfg,        \* builder / writer configuration chosen at construction
    cw,         \* StreamingErasureChunkingWriter fields
    wr,         \* the Write::write call in progress (buffer, position)
    obs,        \* history of the written byte stream (which chunk each byte landed in)
    disk,       \* files on disk: shard files and the index
    bld,        \* ArchiveBuilder::create position and collected file entries
    ext,        \* ArchiveExtractor / decode_chunk results
    sw,         \* StreamingShardWriter fields and the payloads handed to it
    ver,        \* ArchiveVerifier::verify: the report and the chunks examined
    tape,       \* tape devices and the writers over them
    fname,      \* shard file name under format / parse
    sel         \* the entry filters of extraction: patterns, strip_components

vars == <<hdr, cfg, cw, wr, obs, disk, bld, ext, sw, ver, tape, fname, sel>>

None == "none"

\* ------------------------------------------------------------------------
\* Bounds of the model
\* ------------------------------------------------------------------------
MaxHdrSmallM == 9      \* every (k, m, sharenum, padlen) with m up to this is enumerated
MaxChunkSize == 4      \* largest configured chunk_size
MaxWrite == 4          \* longest buffer handed to one write call
MaxTotalWritten == 6   \* writes stop once this many bytes were written
MaxFiles == 2          \* number of input files of a build
MaxFileSize == 2       \* largest input file
MaxChunks == 8         \* chunk counter cap (chunk_size = 0 never stops by itself)
MaxDataShards == 3     \* largest data_shards (k) of a writer or build
MaxParityShards == 2   \* largest parity_shards (m - k) of a writer or build
TarBlock == 2          \* tar block length (512 in the tar format), scaled

\* ------------------------------------------------------------------------
\* u32 arithmetic of zfec_header.rs.  A u32 is kept as two 16-bit halves
\* <<high, low>>, so that no intermediate value leaves the integers.
\* ------------------------------------------------------------------------
RECURSIVE Pow2(_)
Pow2(n) == IF n = 0 THEN 1 ELSE 2 * Pow2(n - 1)

Half == 65536

\* v as u32, for 0 <= v < 2^31
ToU32(v) == <<v \div Half, v % Half>>

\* u32 << n for n <= 15 (bits shifted out at the top are lost)
ShlSmall(w, n) ==
    LET lo == w[2] * Pow2(n)
    IN  <<(w[1] * Pow2(n) + lo \div Half) % Half, lo % Half>>

\* u32 << n for n < 32
Shl(w, n) ==
    IF n <= 15 THEN ShlSmall(w, n)
    ELSE ShlSmall(<<w[2], 0>>, n - 16)

\* u32 >> n for n < 32
Shr(w, n) ==
    IF n <= 15
    THEN <<w[1] \div Pow2(n), ((w[1] % Pow2(n)) * Pow2(16 - n) + w[2] \div Pow2(n)) % Half>>
    ELSE <<0, w[1] \div Pow2(n - 16)>>

RECURSIVE Or16(_, _)
Or16(a, b) ==
    IF a = 0 THEN b
    ELSE IF b = 0 THEN a
    ELSE (IF (a % 2 = 1) \/ (b % 2 = 1) THEN 1 ELSE 0) + 2 * Or16(a \div 2, b \div 2)

BitOr(a, b) == <<Or16(a[1], b[1]), Or16(a[2], b[2])>>

\* w & ((1 << n) - 1) as an integer, for n <= 16
LowBits(w, n) == w[2] % Pow2(n)

\* u32::to_be_bytes
ToBeBytes(w) == <<w[1] \div 256, w[1] % 256, w[2] \div 256, w[2] % 256>>

\* u32::from_be_bytes
FromBeBytes(b) == <<b[1] * 256 + b[2], b[3] * 256 + b[4]>>

Min(a, b) == IF a < b THEN a ELSE b

Zeros(n) == [i \in 1..n |-> 0]

\* ------------------------------------------------------------------------
\* erasure/zfec_header.rs
\* ------------------------------------------------------------------------
RECURSIVE BitLen(_)
BitLen(v) == IF v = 0 THEN 0 ELSE 1 + BitLen(v \div 2)

log2_ceil(n) == IF n <= 1 THEN 0 ELSE BitLen(n - 1)

\* Err(InvalidParameters) / Err(InvalidHeader) of the header codec
HdrErr == [ok |-> FALSE, k |-> 0, m |-> 0, sharenum |-> 0, padlen |-> 0]

\* ZfecHeader::new: the validated constructor
ZfecHeaderNew(k, m, sharenum, padlen) ==
    IF k = 0 \/ m = 0 THEN HdrErr
    ELSE IF k > m THEN HdrErr
    ELSE IF sharenum >= m THEN HdrErr
    ELSE IF padlen > Pow2(log2_ceil(k)) - 1 THEN HdrErr
    ELSE [ok |-> TRUE, k |-> k, m |-> m, sharenum |-> sharenum, padlen |-> padlen]

HeaderTotalBits(h) == 8 + log2_ceil(h.m) + log2_ceil(h.k) + log2_ceil(h.m)

\* the match on num_bytes at the end of ZfecHeader::encode
ZfecSerialize(value, num_bytes, total_bits) ==
    CASE num_bytes = 2 -> [ok |-> TRUE, bytes |-> SubSeq(ToBeBytes(value), 3, 4)]
      [] num_bytes = 3 ->
            [ok |-> TRUE,
             bytes |-> SubSeq(ToBeBytes(Shl(value, (num_bytes * 8) - total_bits)), 2, 4)]
      [] num_bytes = 4 -> [ok |-> TRUE, bytes |-> ToBeBytes(value)]
      [] OTHER -> [ok |-> FALSE, bytes |-> <<>>]

\* the packed value of ZfecHeader::encode (left to right: m-1, k-1, padlen, sharenum)
ZfecPack(h, k_bits, pad_bits, total_bits) ==
    BitOr(BitOr(BitOr(BitOr(ToU32(0), Shl(ToU32(h.m - 1), total_bits - 8)),
                      Shl(ToU32(h.k - 1), total_bits - 8 - k_bits)),
                Shl(ToU32(h.padlen), total_bits - 8 - k_bits - pad_bits)),
          ToU32(h.sharenum))

\* ZfecHeader::encode; ok = FALSE stands for the unreachable!() arm (a panic)
ZfecEncode(h) ==
    ZfecSerialize(ZfecPack(h, log2_ceil(h.m), log2_ceil(h.k), HeaderTotalBits(h)),
                  (HeaderTotalBits(h) + 7) \div 8, HeaderTotalBits(h))

\* ZfecHeader::decode, its last check: sharenum < m
ZfecDecodeResult(m, k, padlen, sharenum) ==
    IF sharenum >= m THEN HdrErr
    ELSE [ok |-> TRUE, k |-> k, m |-> m, sharenum |-> sharenum, padlen |-> padlen]

\* ZfecHeader::decode once k is known: the size check, then padlen and sharenum
ZfecDecodeFields(value, total_bytes, m, k, sharenum_bits, pad_bits, expected_total_bits) ==
    IF (expected_total_bits + 7) \div 8 # total_bytes THEN HdrErr
    ELSE ZfecDecodeResult(m, k,
            LowBits(Shr(value, sharenum_bits + (total_bytes * 8) - expected_total_bits),
                    pad_bits),
            LowBits(Shr(value, (total_bytes * 8) - expected_total_bits), sharenum_bits))

\* ZfecHeader::decode once m is known: k and its checks
ZfecDecodeK(value, total_bytes, m, k_bits, k) ==
    IF k > 255 \/ k = 0 \/ k > m THEN HdrErr
    ELSE ZfecDecodeFields(value, total_bytes, m, k, k_bits, log2_ceil(k),
                          8 + k_bits + log2_ceil(k) + k_bits)

\* ZfecHeader::decode from the u32 value: m from the first 8 bits
ZfecDecodeM(value, total_bytes, m) ==
    IF m > 255 THEN HdrErr
    ELSE ZfecDecodeK(value, total_bytes, m, log2_ceil(m),
            LowBits(Shr(value, total_bytes * 8 - 8 - log2_ceil(m)), log2_ceil(m)) + 1)

ZfecDecodeValue(value, total_bytes) ==
    ZfecDecodeM(value, total_bytes, LowBits(Shr(value, total_bytes * 8 - 8), 8) + 1)

\* ZfecHeader::decode; HdrErr for every InvalidHeader return
ZfecDecode(bytes) ==
    IF Len(bytes) < 2 \/ Len(bytes) > 4 THEN HdrErr
    ELSE ZfecDecodeValue(FromBeBytes(Zeros(4 - Len(bytes)) \o bytes), Len(bytes))

\* ZfecHeader::try_decode
ZfecTryDecode(bytes) ==
    ZfecDecode(bytes)   \* .ok() : ok = FALSE is None

\* ------------------------------------------------------------------------
\* Sequence helpers
\* ------------------------------------------------------------------------
Take(s, n) == SubSeq(s, 1, Min(n, Len(s)))
Drop(s, n) == SubSeq(s, n + 1, Len(s))

RECURSIVE Concat(_)
Concat(ss) == IF Len(ss) = 0 THEN <<>> ELSE Head(ss) \o Concat(Tail(ss))

RECURSIVE SumSeq(_)
SumSeq(s) == IF Len(s) = 0 THEN 0 ELSE Head(s) + SumSeq(Tail(s))

RECURSIVE SetToSeq(_)
\* the elements of a finite set of integers in ascending order
SetToSeq(S) ==
    IF S = {} THEN <<>>
    ELSE LET x == CHOOSE y \in S : \A z \in S : y <= z
         IN  <<x>> \o SetToSeq(S \ {x})

\* ------------------------------------------------------------------------
\* compression/zstd.rs: one independent frame per chunk.  A frame is the
\* magic, the content length and the content; the decoder reads frames
\* until the input ends and fails on anything that is not a frame.
\* ------------------------------------------------------------------------
ZstdMagic == 40
MIN_COMPRESSION_LEVEL == 1
MAX_COMPRESSION_LEVEL == 22
DEFAULT_COMPRESSION_LEVEL == 3

validate_compression_level(level) ==
    ~(level < MIN_COMPRESSION_LEVEL \/ level > MAX_COMPRESSION_LEVEL)

\* Encoder::finish on a Vec sink: the finished frame
ZstdFrame(data) == <<ZstdMagic, Len(data)>> \o data

\* create_decoder + io::copy: ok = FALSE is a Decompression / Io error
RECURSIVE ZstdDecode(_)
ZstdDecode(bytes) ==
    IF Len(bytes) = 0 THEN [ok |-> TRUE, data |-> <<>>]
    ELSE IF Len(bytes) < 2 \/ bytes[1] # ZstdMagic THEN [ok |-> FALSE, data |-> <<>>]
    ELSE IF Len(bytes) < 2 + bytes[2] THEN [ok |-> FALSE, data |-> <<>>]
    ELSE LET rest == ZstdDecode(Drop(bytes, 2 + bytes[2]))
         IN  IF rest.ok
             THEN [ok |-> TRUE, data |-> SubSeq(bytes, 3, 2 + bytes[2]) \o rest.data]
             ELSE [ok |-> FALSE, data |-> <<>>]

\* ------------------------------------------------------------------------
\* reed_solomon_erasure::galois_8::ReedSolomon, as used by the chunk writer
\* and by decode_chunk: a systematic MDS code, shard i holding the value at
\* point i of the polynomial through the k data shards (one polynomial per
\* byte position).  The field is the prime field of FieldP elements.
\* ------------------------------------------------------------------------
FieldP == 257
RS_MAX_SHARDS == 256

RECURSIVE FPow(_, _)
FPow(a, e) ==
    IF e = 0 THEN 1
    ELSE LET h == FPow(a, e \div 2)
         IN  IF e % 2 = 0 THEN (h * h) % FieldP ELSE (((h * h) % FieldP) * a) % FieldP

\* the inverse of a nonzero field element (a^(p-2))
FInv(a) == FPow(a, FieldP - 2)
FSub(a, b) == (a + FieldP - (b % FieldP)) % FieldP

RECURSIVE LagrangeTerm(_, _, _)
\* product over j in xs, j # i, of (t - j) / (i - j)
LagrangeTerm(xs, i, t) ==
    IF Len(xs) = 0 THEN 1
    ELSE IF Head(xs) = i THEN LagrangeTerm(Tail(xs), i, t)
    ELSE (FSub(t, Head(xs)) * FInv(FSub(i, Head(xs))) * LagrangeTerm(Tail(xs), i, t)) % FieldP

\* the coefficients that give the value at t of the polynomial of degree
\* < Len(xs) from its values at the points xs
LagrangeCoefs(xs, t) == [n \in 1..Len(xs) |-> LagrangeTerm(xs, xs[n], t)] \o <<>>

\* byte b of the shard whose coefficients are coefs, from the shards rows
Interpolate(coefs, rows, b) ==
    SumSeq([n \in 1..Len(coefs) |-> coefs[n] * rows[n][b]]) % FieldP

RSNewOk_Below255(data_shards, parity_shards) ==
    /\ data_shards > 0
    /\ parity_shards > 0
    /\ data_shards + parity_shards < 255

\* ReedSolomon::new
RSNewOk(data_shards, parity_shards) ==
    /\ data_shards > 0
    /\ parity_shards > 0
    /\ data_shards + parity_shards <= RS_MAX_SHARDS

\* ReedSolomon::encode: shards is the sequence of data + parity buffers, all of
\* one length; the parity buffers are overwritten.  Shard number i (from 0)
\* sits at index i + 1.
RSEncode(shards, data_shards) ==
    LET xs == [i \in 1..data_shards |-> i - 1]
        len == Len(shards[1])
        rows == SubSeq(shards, 1, data_shards)
    IN  [i \in 1..Len(shards) |->
            IF i <= data_shards THEN shards[i]
            ELSE LET coefs == LagrangeCoefs(xs, i - 1)
                 IN  [b \in 1..len |-> Interpolate(coefs, rows, b)] \o <<>>] \o <<>>

\* ReedSolomon::reconstruct on a vector of optional shards.
\* A slot is [present |-> BOOLEAN, data |-> bytes].
RSReconstruct(slots, data_shards, parity_shards) ==
    LET total == data_shards + parity_shards
        present == {i \in 1..Len(slots) : slots[i].present}
        lens == {Len(slots[i].data) : i \in present}
        fail == [ok |-> FALSE, slots |-> slots]
    IN  IF Len(slots) # total THEN fail
        ELSE IF 0 \in lens THEN fail                      \* EmptyShard
        ELSE IF Cardinality(lens) > 1 THEN fail           \* IncorrectShardSize
        ELSE IF Cardinality(present) = total THEN [ok |-> TRUE, slots |-> slots]
        ELSE IF Cardinality(present) < data_shards THEN fail   \* TooFewShardsPresent
        ELSE
        LET used == Take(SetToSeq(present), data_shards)
            xs == [n \in 1..data_shards |-> used[n] - 1]
            len == CHOOSE l \in lens : TRUE
            rows == [n \in 1..data_shards |-> slots[used[n]].data]
        IN  [ok |-> TRUE,
             slots |-> [i \in 1..total |->
                IF slots[i].present THEN slots[i]
                ELSE LET coefs == LagrangeCoefs(xs, i - 1)
                     IN  [present |-> TRUE,
                          data |-> [b \in 1..len |-> Interpolate(coefs, rows, b)]
                                   \o <<>>]] \o <<>>]


\* ------------------------------------------------------------------------
\* io/streaming_shard_writer.rs
\* ------------------------------------------------------------------------
\* the key of a shard file: format_shard_path(base, chunk_number, shard_number)
ShardKey(chunk_number, shard_number) == <<chunk_number, shard_number>>

\* StreamingShardWriter::for_chunk_with_headers + write_shards + finish, for
\* one chunk on file sinks: every file is created, gets its header once, then
\* its payload.  ok = FALSE when a header cannot be built.
ShardHeaderBytes(h) ==
    IF h.ok THEN ZfecEncode(h) ELSE [ok |-> FALSE, bytes |-> <<>>]

\* the files of one chunk: es are the encoded headers, one per shard
WriteShardFiles(d, chunk_number, data_shards, total_shards, padlen, shards, es, created) ==
    IF Len(shards) # total_shards
    THEN [ok |-> FALSE, disk |-> [d EXCEPT !.shards = created @@ d.shards]]
    ELSE IF \E i \in 1..total_shards : ~es[i].ok
    THEN [ok |-> FALSE, disk |-> [d EXCEPT !.shards = created @@ d.shards]]
    ELSE [ok |-> TRUE,
          disk |-> [d EXCEPT
             !.shards = [key \in DOMAIN created |->
                            es[key[2] + 1].bytes \o shards[key[2] + 1]] @@ d.shards,
             !.sinks = Append(d.sinks,
                          [chunk |-> chunk_number, k |-> data_shards, m |-> total_shards,
                           padlen |-> padlen, payloads |-> shards])]]

WriteShardGroup(d, chunk_number, data_shards, total_shards, padlen, shards) ==
    WriteShardFiles(d, chunk_number, data_shards, total_shards, padlen, shards,
        [i \in 1..total_shards |->
            ShardHeaderBytes(ZfecHeaderNew(data_shards, total_shards, i - 1, padlen))],
        [key \in {ShardKey(chunk_number, i - 1) : i \in 1..total_shards} |-> <<>>])

\* ------------------------------------------------------------------------
\* chunking/streaming_erasure_chunker.rs
\* ------------------------------------------------------------------------
ZFEC_MAX_SHARDS == 255

\* StreamingErasureChunkingWriter::new(...).no_compression(...)
NewWriter(chunk_size, compression_level, data_shards, parity_shards, no_comp) ==
    [chunk_size |-> chunk_size,
     compression_level |-> compression_level,
     no_compression |-> no_comp,
     data_shards |-> data_shards,
     parity_shards |-> parity_shards,
     current_chunk |-> 0,
     bytes_in_current_chunk |-> 0,
     active |-> "none",           \* "encoder", "buffer" or "none"
     content |-> <<>>,            \* bytes handed to the encoder / raw buffer
     chunks_created |-> <<>>]

ShardSizeFor_FloorPlusOne(len, data_shards) == len \div data_shards + 1

\* shard_size as the code computes it
ShardSizeFor(len, data_shards) == (len + data_shards - 1) \div data_shards

PadLenFor_None(len, shard_size, data_shards) == 0

\* padlen: the zero bytes that fill the last data shard
PadLenFor(len, shard_size, data_shards) == data_shards * shard_size - len

\* the data split over the first k of m zeroed buffers (chunks(shard_size))
SplitIntoShards(chunk_data, shard_size, total_shards) ==
    [i \in 1..total_shards |->
        [b \in 1..shard_size |->
            LET pos == (i - 1) * shard_size + b
            IN  IF pos <= Len(chunk_data) THEN chunk_data[pos] ELSE 0] \o <<>>] \o <<>>

\* encode_and_write_shards: ok = FALSE for every Err return
encode_and_write_shards(w, d, chunk_data) ==
    LET shard_size == ShardSizeFor(Len(chunk_data), w.data_shards)
        padlen == PadLenFor(Len(chunk_data), shard_size, w.data_shards)
        total_shards == w.data_shards + w.parity_shards
    IN  IF ~RSNewOk(w.data_shards, w.parity_shards)
        THEN [ok |-> FALSE, disk |-> d, shard_size |-> 0]
        ELSE IF w.data_shards > ZFEC_MAX_SHARDS \/ total_shards > ZFEC_MAX_SHARDS
        THEN [ok |-> FALSE, disk |-> d, shard_size |-> 0]
        ELSE
        WriteShardGroup(d, w.current_chunk, w.data_shards, total_shards, padlen,
            RSEncode(SplitIntoShards(chunk_data, shard_size, total_shards),
                     w.data_shards))
        @@ [shard_size |-> shard_size]

NextChunkNumber_Skip(n) == n + 2

\* self.current_chunk += 1
NextChunkNumber(n) == n + 1

\* finish_current_chunk, after the shards were written with result r:
\* chunks_created.push(ChunkMetadata), current_chunk += 1
RecordChunk(taken, r, chunk_number, compressed_size, uncompressed_size) ==
    IF ~r.ok THEN [ok |-> FALSE, cw |-> taken, disk |-> r.disk]
    ELSE [ok |-> TRUE,
          cw |-> [taken EXCEPT
             !.chunks_created = Append(@,
                 [chunk_number |-> chunk_number,
                  compressed_size |-> compressed_size,
                  uncompressed_size |-> uncompressed_size,
                  shard_size |-> r.shard_size]),
             !.current_chunk = NextChunkNumber(@)],
          disk |-> r.disk]

\* finish_current_chunk once the encoder / buffer is taken: chunk_buffer is
\* the finished frame or the raw buffer
FinishTaken(w, d, taken, chunk_buffer, uncompressed_size) ==
    IF Len(chunk_buffer) = 0 THEN [ok |-> TRUE, cw |-> taken, disk |-> d]
    ELSE RecordChunk(taken, encode_and_write_shards(taken, d, chunk_buffer),
                     w.current_chunk, Len(chunk_buffer), uncompressed_size)

\* finish_current_chunk
finish_current_chunk(w, d) ==
    IF w.active = "none" THEN [ok |-> TRUE, cw |-> w, disk |-> d]
    ELSE FinishTaken(w, d, [w EXCEPT !.active = "none", !.content = <<>>],
             IF w.active = "encoder" THEN ZstdFrame(w.content) ELSE w.content,
             IF w.active = "encoder" THEN w.bytes_in_current_chunk ELSE Len(w.content))

\* start_new_chunk once the previous chunk is finished with result f
OpenChunk(f, w) ==
    IF ~f.ok THEN f
    ELSE IF w.no_compression
    THEN [f EXCEPT !.cw.bytes_in_current_chunk = 0, !.cw.active = "buffer",
                   !.cw.content = <<>>]
    ELSE IF ~validate_compression_level(w.compression_level)
    THEN [f EXCEPT !.ok = FALSE, !.cw.bytes_in_current_chunk = 0]
    ELSE [f EXCEPT !.cw.bytes_in_current_chunk = 0, !.cw.active = "encoder",
                   !.cw.content = <<>>]

\* start_new_chunk
start_new_chunk(w, d) ==
    OpenChunk(IF w.active # "none" THEN finish_current_chunk(w, d)
              ELSE [ok |-> TRUE, cw |-> [w EXCEPT !.current_chunk = 1], disk |-> d],
              w)

\* current_chunk_number
current_chunk_number(w) == IF w.current_chunk = 0 THEN 1 ELSE w.current_chunk

\* finish(self): the chunk list is w.chunks_created of the result
writer_finish(w, d) ==
    IF w.active # "none" /\ w.bytes_in_current_chunk > 0
    THEN finish_current_chunk(w, d)
    ELSE [ok |-> TRUE, cw |-> w, disk |-> d]


\* Write::write before the loop, given the result s of starting a chunk
BeginLoop(W, buf, s) ==
    IF ~s.ok
    THEN [W EXCEPT !.cw = s.cw, !.disk = s.disk, !.wr.pc = "failed",
                   !.obs.reported = current_chunk_number(W.cw),
                   !.obs.callStart = Len(W.obs.stream)]
    ELSE [W EXCEPT !.cw = s.cw, !.disk = s.disk,
                   !.obs.reported = current_chunk_number(W.cw),
                   !.obs.callStart = Len(W.obs.stream),
                   !.wr = [pc |-> "loop", buf |-> buf, bytes_written |-> 0]]

\* Write::write, the part before the loop.  W is the writer together with
\* what it writes to: [cw, disk, wr, obs].
write_begin(W, buf) ==
    IF Len(buf) = 0 THEN W
    ELSE BeginLoop(W, buf,
             IF W.cw.active = "none" THEN start_new_chunk(W.cw, W.disk)
             ELSE [ok |-> TRUE, cw |-> W.cw, disk |-> W.disk])

ToWrite_IgnoreFill(W) ==
    Min(W.cw.chunk_size, Len(W.wr.buf) - W.wr.bytes_written)

\* to_write of the current loop iteration
ToWrite(W) ==
    LET remaining_in_chunk == W.cw.chunk_size - W.cw.bytes_in_current_chunk
        remaining_in_buf == Len(W.wr.buf) - W.wr.bytes_written
    IN  Min(remaining_in_chunk, remaining_in_buf)

\* the loop iteration with to_write = 0: s is the result of start_new_chunk
Rotated(W, s) ==
    IF ~s.ok
    THEN [W EXCEPT !.cw = s.cw, !.disk = s.disk, !.wr.pc = "failed"]
    ELSE [W EXCEPT !.cw = s.cw, !.disk = s.disk]

\* the loop iteration that hands piece (n bytes) to the encoder / buffer
Accepted(W, n, piece, done) ==
    [W EXCEPT
       !.cw.content = @ \o piece,
       !.cw.bytes_in_current_chunk = @ + n,
       !.wr.bytes_written = @ + n,
       !.wr.pc = IF done THEN "idle" ELSE "loop",
       !.wr.buf = IF done THEN <<>> ELSE @,
       !.obs.stream = @ \o piece,
       !.obs.landed = @ \o [i \in 1..n |-> W.cw.current_chunk]]

\* one iteration of the while loop of Write::write; n is the number of bytes
\* the encoder accepts (the raw buffer takes all of to_write)
write_loop(W, n) ==
    IF ToWrite(W) = 0
    THEN Rotated(W, start_new_chunk(W.cw, W.disk))
    ELSE Accepted(W, n,
             SubSeq(W.wr.buf, W.wr.bytes_written + 1, W.wr.bytes_written + n),
             W.wr.bytes_written + n = Len(W.wr.buf))

\* the byte counts the sink of the current chunk may accept in one iteration
Accepts(W) ==
    IF ToWrite(W) = 0 THEN {0}
    ELSE IF W.cw.active = "encoder" THEN 1..ToWrite(W)
    ELSE {ToWrite(W)}

\* ------------------------------------------------------------------------
\* erasure/decoder.rs
\* ------------------------------------------------------------------------
NoExpected == -1     \* expected_size = None

\* a chunk that was not reconstructed
NoDecode == [ok |-> FALSE, err |-> "", bytes |-> <<>>]

RECURSIVE FillSlots(_, _, _)
\* "Fill in available shards": later entries overwrite earlier ones, shard
\* numbers outside the vector are ignored
FillSlots(slots, available, total_shards) ==
    IF Len(available) = 0 THEN slots
    ELSE LET sh == Head(available)
         IN  FillSlots(IF sh.shard_number < total_shards
                       THEN [slots EXCEPT ![sh.shard_number + 1] =
                                [present |-> TRUE, data |-> sh.data]]
                       ELSE slots,
                       Tail(available), total_shards)

TrimTo_Keep(reconstructed, expected_size) == reconstructed

\* the truncation of decode_chunk
TrimTo(reconstructed, expected_size) ==
    IF expected_size # NoExpected /\ Len(reconstructed) > expected_size
    THEN Take(reconstructed, expected_size)
    ELSE reconstructed

\* an Err return of decode_chunk
DecodeErr(e) == [ok |-> FALSE, err |-> e, bytes |-> <<>>]

\* decode_chunk after rs.reconstruct returned r: the data shards are
\* concatenated, truncated and written to output_path
Reassemble(r, data_shards, expected_size) ==
    IF ~r.ok THEN DecodeErr("ErasureCoding")
    ELSE IF \E i \in 1..data_shards : ~r.slots[i].present
    THEN DecodeErr("ErasureCoding")
    ELSE [ok |-> TRUE, err |-> "",
          bytes |-> TrimTo(Concat([i \in 1..data_shards |-> r.slots[i].data]),
                           expected_size)]

decode_chunk_Uncounted(available_shards, data_shards, parity_shards, expected_size) ==
    IF Len(available_shards) = 0 THEN DecodeErr("ErasureCoding")
    ELSE IF ~RSNewOk(data_shards, parity_shards) THEN DecodeErr("ErasureCoding")
    ELSE Reassemble(
             RSReconstruct(
                 FillSlots([i \in 1..(data_shards + parity_shards) |->
                               [present |-> FALSE, data |-> <<>>]],
                           available_shards, data_shards + parity_shards),
                 data_shards, parity_shards),
             data_shards, expected_size)

\* decode_chunk: available_shards is a sequence of ShardData
\* [chunk_number, shard_number, data]; the result carries the bytes written
\* to output_path
decode_chunk(available_shards, data_shards, parity_shards, expected_size) ==
    IF Len(available_shards) < data_shards THEN DecodeErr("InsufficientShards")
    ELSE IF Len(available_shards) = 0 THEN DecodeErr("ErasureCoding")
    ELSE IF ~RSNewOk(data_shards, parity_shards) THEN DecodeErr("ErasureCoding")
    ELSE Reassemble(
             RSReconstruct(
                 FillSlots([i \in 1..(data_shards + parity_shards) |->
                               [present |-> FALSE, data |-> <<>>]],
                           available_shards, data_shards + parity_shards),
                 data_shards, parity_shards),
             data_shards, expected_size)


\* ------------------------------------------------------------------------
\* The tar stream produced and consumed through the tar builder / archive.
\* A record is one header block naming the file and its size, the data, and
\* zero padding to a whole block; the stream ends with two zero blocks.
\* ------------------------------------------------------------------------
PathTag == 100       \* first header byte of file i is PathTag + i

\* the bytes of input file i of the given size (non-zero, distinct per file)
FileData(i, size) == [b \in 1..size |-> 10 * i + b]

\* tar_builder.append_file: the header block
TarHeader(i, size) == <<PathTag + i, size>> \o Zeros(TarBlock - 2)

\* tar_builder.append_file: padding of the data to a whole block
TarPadding(size) == Zeros((TarBlock - (size % TarBlock)) % TarBlock)

\* tar_builder.finish: two blocks of zeros
TarTrailer == Zeros(2 * TarBlock)

RECURSIVE TarStream(_, _)
\* the whole tar stream of files[from..]
TarStream(files, from) ==
    IF from > Len(files) THEN TarTrailer
    ELSE TarHeader(from, files[from]) \o FileData(from, files[from])
         \o TarPadding(files[from]) \o TarStream(files, from + 1)

IsZeroBlock(b) == \A i \in 1..Len(b) : b[i] = 0

RECURSIVE TarEntries(_, _)
\* tar::Archive::entries + unpack: the entries read so far are acc; ok = FALSE
\* when an entry cannot be read
TarEntries(bytes, acc) ==
    IF Len(bytes) = 0 THEN [ok |-> TRUE, files |-> acc]
    ELSE IF Len(bytes) < TarBlock THEN [ok |-> FALSE, files |-> acc]
    ELSE
    LET h == Take(bytes, TarBlock)
        rest == Drop(bytes, TarBlock)
    IN  IF IsZeroBlock(h)
        THEN IF Len(rest) = 0 \/ (Len(rest) >= TarBlock /\ IsZeroBlock(Take(rest, TarBlock)))
             THEN [ok |-> TRUE, files |-> acc]
             ELSE [ok |-> FALSE, files |-> acc]
        ELSE
        LET size == h[2]
            whole == size + Len(TarPadding(size))
        IN  IF Len(rest) < whole THEN [ok |-> FALSE, files |-> acc]
            ELSE TarEntries(Drop(rest, whole),
                            acc \cup {[path |-> h[1] - PathTag, data |-> Take(rest, size)]})

\* the file tree the builder is given, as the set of its (path, data) pairs
InputTree(files) ==
    {[path |-> i, data |-> FileData(i, files[i])] : i \in 1..Len(files)}

\* ------------------------------------------------------------------------
\* archive/create.rs
\* ------------------------------------------------------------------------
MAX_TOTAL_SHARDS == 256

\* ArchiveBuilder::validate
validate(c) ==
    /\ c.data_shards >= 1
    /\ c.parity_shards >= 1
    /\ c.data_shards + c.parity_shards <= MAX_TOTAL_SHARDS
    /\ (~c.no_compression => validate_compression_level(c.compression_level))

\* the FileEntry of file i; spans_chunks = <<>> is None.  from and to delimit
\* the bytes of the file's tar record in the tar stream (not part of the index
\* file; kept to compare the entry with where the record went)
FileEntryOf(i, size, chunk_number, final_chunk, from, to) ==
    [path |-> i, chunk |-> chunk_number, size |-> size,
     spans_chunks |-> IF final_chunk # chunk_number
                      THEN [j \in 1..(final_chunk - chunk_number + 1) |->
                                chunk_number + j - 1]
                      ELSE <<>>,
     from |-> from, to |-> to]

\* write_index through create_index / create_index_from_streaming
write_index(d, c, file_entries, chunks) ==
    [d EXCEPT !.index = [present |-> TRUE, readable |-> TRUE,
                         k |-> c.data_shards, parity |-> c.parity_shards,
                         chunks |-> chunks, files |-> file_entries]]

\* create_single: one <base>.tar.zst file and, unless no_index, the index
create_single(d, c, files) ==
    LET tar == TarStream(files, 1)
        bytes == IF c.no_compression THEN tar ELSE ZstdFrame(tar)
        file_entries == [i \in 1..Len(files) |-> FileEntryOf(i, files[i], 1, 1, 0, 0)]
        chunks_info == <<[chunk_number |-> 1, compressed_size |-> Len(bytes),
                          uncompressed_size |-> SumSeq(files), shard_size |-> 0]>>
        d1 == [d EXCEPT !.tarzst = [present |-> TRUE, bytes |-> bytes]]
    IN  [disk |-> IF c.no_index THEN d1 ELSE write_index(d1, c, file_entries, chunks_info),
         chunks |-> 1]


\* ------------------------------------------------------------------------
\* io/shard_reader.rs and ShardData::from_file
\* ------------------------------------------------------------------------
RECURSIVE ProbeHeader(_, _)
\* probe the first bytes of a shard file for a zfec header, trying the header
\* sizes size, size + 1, .. 4 in order: the first that decodes wins and the
\* payload is what follows it; without a header the payload is the whole file
ProbeHeader(raw, size) ==
    IF size > 4 \/ Len(raw) < size THEN [header |-> HdrErr, data |-> raw]
    ELSE LET h == ZfecTryDecode(Take(raw, size))
         IN  IF h.ok THEN [header |-> h, data |-> Drop(raw, size)]
             ELSE ProbeHeader(raw, size + 1)

\* ShardData::from_file: chunk and shard number come from the file name
from_file(key, raw) ==
    [chunk_number |-> key[1], shard_number |-> key[2]] @@ ProbeHeader(raw, 2)

\* the shard numbers of the files of chunk c, in glob (file name) order
ShardNumbersOf(d, c) == SetToSeq({key[2] : key \in {x \in DOMAIN d.shards : x[1] = c}})

\* discover_shards: chunk_number -> Vec<ShardData>
discover_shards(d) ==
    [c \in {key[1] : key \in DOMAIN d.shards} |->
        LET ns == ShardNumbersOf(d, c)
        IN  [j \in 1..Len(ns) |->
                from_file(ShardKey(c, ns[j]), d.shards[ShardKey(c, ns[j])])] \o <<>>]
    @@ <<>>

\* find_index_file
find_index_file(d) == d.index.present

\* ------------------------------------------------------------------------
\* archive/extract.rs
\* ------------------------------------------------------------------------
ExtractResult(ok, err, tree, total, recovered, failed) ==
    [ok |-> ok, err |-> err, tree |-> tree, chunks_total |-> total,
     chunks_recovered |-> recovered, chunks_failed |-> failed,
     files_extracted |-> Cardinality(tree)]

RECURSIVE DecompressChunks(_, _, _)
\* "Decompress and concatenate all chunks in order": temp maps the chunk
\* numbers that were reconstructed to their bytes
DecompressChunks(chunk_numbers, temp, chunks_failed) ==
    IF Len(chunk_numbers) = 0 THEN [ok |-> TRUE, data |-> <<>>]
    ELSE
    LET c == Head(chunk_numbers)
        rest == DecompressChunks(Tail(chunk_numbers), temp, chunks_failed)
    IN  IF c \in chunks_failed \/ c \notin DOMAIN temp THEN rest
        ELSE LET z == ZstdDecode(temp[c])
             IN  IF ~z.ok \/ ~rest.ok THEN [ok |-> FALSE, data |-> <<>>]
                 ELSE [ok |-> TRUE, data |-> z.data \o rest.data]

\* "Extract tar archive": t is what the tar reader yields
Unpacked(t, partial, total, recovered, nfailed) ==
    IF ~t.ok /\ ~partial
    THEN ExtractResult(FALSE, "Tar", t.files, total, recovered, nfailed)
    ELSE ExtractResult(TRUE, "", t.files, total, recovered, nfailed)

\* the decompressed and concatenated chunks cat, handed to the tar reader
Untar(cat, partial, total, recovered, nfailed) ==
    IF ~cat.ok THEN ExtractResult(FALSE, "Io", {}, total, recovered, nfailed)
    ELSE Unpacked(TarEntries(cat.data, {}), partial, total, recovered, nfailed)

\* extract_all_chunks (no file filters, no exclude patterns, strip_components 0)
extract_all_chunks(temp, index, chunks_failed, partial, recovered) ==
    Untar(DecompressChunks(
              SetToSeq({index.chunks[i].chunk_number : i \in 1..Len(index.chunks)}),
              temp, chunks_failed),
          partial, Len(index.chunks), recovered, Cardinality(chunks_failed))

\* extract_chunks_no_index: a tar error is returned, never tolerated
extract_chunks_no_index(temp, chunk_numbers, chunks_failed, recovered) ==
    Untar(DecompressChunks(chunk_numbers, temp, chunks_failed),
          FALSE, Len(chunk_numbers), recovered, Cardinality(chunks_failed))

\* extract_with_index, the loop over index.chunks: the decode result per chunk
DecodeIndexed(shards_by_chunk, index) ==
    [i \in 1..Len(index.chunks) |->
        LET chunk_num == index.chunks[i].chunk_number
        IN  IF chunk_num \notin DOMAIN shards_by_chunk THEN NoDecode
            ELSE IF Len(shards_by_chunk[chunk_num]) < index.k THEN NoDecode
            ELSE decode_chunk(shards_by_chunk[chunk_num], index.k, index.parity,
                              index.chunks[i].compressed_size)] \o <<>>

\* extract_with_index after the loop; dec are the decode results
AfterDecodeIndexed(dec, index, partial) ==
    LET total == Len(index.chunks)
        good == {j \in 1..total : dec[j].ok}
        chunks_failed == {index.chunks[i].chunk_number : i \in (1..total) \ good}
        temp == [c \in {index.chunks[i].chunk_number : i \in good} |->
                    dec[CHOOSE i \in good : index.chunks[i].chunk_number = c].bytes]
                @@ <<>>
    IN  IF good = {}
        THEN IF partial
             THEN ExtractResult(TRUE, "", {}, total, 0, Cardinality(chunks_failed))
             ELSE ExtractResult(FALSE, "ErasureCoding", {}, total, 0,
                                Cardinality(chunks_failed))
        ELSE IF chunks_failed # {} /\ ~partial
        THEN ExtractResult(FALSE, "ErasureCoding", {}, total, Cardinality(good),
                           Cardinality(chunks_failed))
        ELSE extract_all_chunks(temp, index, chunks_failed, partial, Cardinality(good))

\* extract_with_index
extract_with_index(d, index, partial) ==
    AfterDecodeIndexed(DecodeIndexed(discover_shards(d), index), index, partial)

\* extract_from_shards_only, the loop over shards_by_chunk with the
\* parameters read from the first header
DecodeUnindexed(shards_by_chunk, data_shards, parity_shards) ==
    [c \in DOMAIN shards_by_chunk |->
        LET shards == shards_by_chunk[c]
            actual_size == Len(shards[1].data) * data_shards - shards[1].header.padlen
        IN  IF Len(shards) < data_shards THEN NoDecode
            ELSE IF shards[1].header.ok /\ actual_size < 0
            THEN [NoDecode EXCEPT !.err = "Overflow"]
            ELSE decode_chunk(shards, data_shards, parity_shards,
                              IF shards[1].header.ok THEN actual_size
                              ELSE NoExpected)] @@ <<>>

\* extract_from_shards_only after the loop; dec are the decode results
AfterDecodeUnindexed(dec) ==
    LET chunks_failed == {c \in DOMAIN dec : ~dec[c].ok}
        good == {c \in DOMAIN dec : dec[c].ok}
    IN  IF good = {}
        THEN ExtractResult(FALSE, "ErasureCoding", {}, Cardinality(DOMAIN dec), 0,
                           Cardinality(chunks_failed))
        ELSE extract_chunks_no_index([c \in good |-> dec[c].bytes] @@ <<>>,
                                     SetToSeq(DOMAIN dec), chunks_failed,
                                     Cardinality(good))

\* extract_from_shards_only on the discovered shards; first is the chunk that
\* shards_by_chunk.values().next() yields
ExtractDiscovered(shards_by_chunk, first) ==
    IF DOMAIN shards_by_chunk = {}
    THEN ExtractResult(FALSE, "ErasureCoding", {}, 0, 0, 0)
    ELSE IF ~shards_by_chunk[first][1].header.ok
    THEN ExtractResult(FALSE, "InvalidHeader", {}, Cardinality(DOMAIN shards_by_chunk),
                       0, 0)
    ELSE AfterDecodeUnindexed(
             DecodeUnindexed(shards_by_chunk,
                 shards_by_chunk[first][1].header.k,
                 shards_by_chunk[first][1].header.m - shards_by_chunk[first][1].header.k))

\* extract_from_shards_only
extract_from_shards_only(d, first) ==
    ExtractDiscovered(discover_shards(d), first)

\* ArchiveExtractor::extract
extract(d, partial, first) ==
    IF find_index_file(d) /\ d.index.readable
    THEN extract_with_index(d, d.index, partial)
    ELSE extract_from_shards_only(d, first)


\* ------------------------------------------------------------------------
\* State
\* ------------------------------------------------------------------------
World == [cw |-> cw, disk |-> disk, wr |-> wr, obs |-> obs]

EmptyDisk == [shards |-> <<>>, sinks |-> <<>>, lost |-> {},
              index |-> [present |-> FALSE, readable |-> FALSE, k |-> 0, parity |-> 0,
                         chunks |-> <<>>, files |-> <<>>],
              tarzst |-> [present |-> FALSE, bytes |-> <<>>]]

IdleWr == [pc |-> "idle", buf |-> <<>>, bytes_written |-> 0]
IdleObs == [stream |-> <<>>, landed |-> <<>>, reported |-> 0, callStart |-> 0]
IdleHdr == [stage |-> "off", h |-> HdrErr, enc |-> [ok |-> FALSE, bytes |-> <<>>],
            dec |-> HdrErr]
IdleBld == [pc |-> "off", files |-> <<>>, next |-> 0, chunk_number |-> 0, from |-> 0,
            file_entries |-> <<>>, chunks |-> 0]
NoResult == ExtractResult(FALSE, "", {}, 0, 0, 0)

\* StreamingShardWriter::new: no outputs, no headers; written and calls record
\* the payloads of the successful write_shards calls
NoSinks == [pc |-> "none", outputs |-> <<>>, current_chunk |-> 0,
            has_ec |-> FALSE, k |-> 0, m |-> 0, padlen |-> 0,
            headers_written |-> FALSE, written |-> <<>>, calls |-> 0,
            sizes |-> <<>>]

\* no verification under way; the fields are those of VerificationReport
NoVerify == [pc |-> "off", full_mode |-> FALSE, examined |-> {},
             status |-> "Healthy", chunks_verified |-> 0, chunks_failed |-> {},
             chunks_unrecoverable |-> {}, total_shards |-> 0, missing_shards |-> 0,
             err |-> ""]

\* no tape device in use
NoTape == [pc |-> "off", tape_outputs |-> <<>>, shard_positions |-> <<>>,
           current_chunk |-> 0, total_shards |-> 0, chunks |-> <<>>, err |-> "",
           k |-> 0, padlen |-> 0, headers_written |-> FALSE]

\* no file name under test
NoName == [pc |-> "off", base |-> <<>>, chunk |-> 0, shard |-> 0, path |-> <<>>,
           parsed |-> [ok |-> FALSE, chunk_number |-> 0, shard_number |-> 0]]

\* no entry selection under test
NoSel == [pc |-> "off", path |-> <<>>, file_filters |-> <<>>,
          exclude_patterns |-> <<>>, strip_components |-> 0, outcome |-> "",
          output_path |-> <<>>]

IdleExt == [pc |-> "off", chunk |-> 0, picked |-> {}, out |-> NoDecode,
            partial |-> FALSE, res |-> NoResult]
IdleCfg == [has_chunk_size |-> TRUE, chunk_size |-> 0,
            compression_level |-> DEFAULT_COMPRESSION_LEVEL,
            no_compression |-> FALSE, no_index |-> FALSE,
            data_shards |-> 1, parity_shards |-> 1]

\* ------------------------------------------------------------------------
\* The chunk writer driven by an arbitrary caller
\* ------------------------------------------------------------------------
WriterConfigs ==
    [has_chunk_size : {TRUE},
     chunk_size : 0..MaxChunkSize,
     compression_level : {DEFAULT_COMPRESSION_LEVEL},
     no_compression : BOOLEAN,
     no_index : {FALSE},
     data_shards : 1..MaxDataShards,
     parity_shards : 1..MaxParityShards]

InitCW ==
    /\ cfg \in WriterConfigs
    /\ cw = NewWriter(cfg.chunk_size, cfg.compression_level, cfg.data_shards,
                      cfg.parity_shards, cfg.no_compression)
    /\ wr = IdleWr
    /\ obs = IdleObs
    /\ disk = EmptyDisk
    /\ hdr = IdleHdr
    /\ bld = IdleBld
    /\ ext = IdleExt
    /\ sw = NoSinks
    /\ ver = NoVerify
    /\ tape = NoTape
    /\ fname = NoName
    /\ sel = NoSel

SetWorld(W) ==
    /\ cw' = W.cw
    /\ disk' = W.disk
    /\ wr' = W.wr
    /\ obs' = W.obs

\* the caller hands a buffer of n fresh bytes to write
CwWrite ==
    /\ wr.pc = "idle"
    /\ \E n \in 0..MaxWrite :
         /\ Len(obs.stream) + n <= MaxTotalWritten
         /\ SetWorld(write_begin(World, [i \in 1..n |-> Len(obs.stream) + i]))
    /\ UNCHANGED <<hdr, cfg, bld, ext, sw, ver, tape, fname, sel>>

\* one iteration of the loop of the write call in progress
WriteLoop ==
    /\ wr.pc = "loop"
    /\ ToWrite(World) = 0 => Len(cw.chunks_created) < MaxChunks
    /\ \E n \in Accepts(World) : SetWorld(write_loop(World, n))
    /\ UNCHANGED <<hdr, cfg, bld, ext, sw, ver, tape, fname, sel>>

\* Write::flush: the encoder is flushed, nothing of the chunk state changes
CwFlush ==
    /\ wr.pc = "idle"
    /\ UNCHANGED vars

\* finish(self)
CwFinish ==
    /\ wr.pc = "idle"
    /\ LET r == writer_finish(cw, disk)
       IN  /\ cw' = r.cw
           /\ disk' = r.disk
           /\ wr' = [wr EXCEPT !.pc = IF r.ok THEN "finished" ELSE "failed"]
    /\ UNCHANGED <<hdr, cfg, obs, bld, ext, sw, ver, tape, fname, sel>>

\* the payload shards of emitted chunk c with shard numbers in S, as ShardData
PayloadShards(c, S) ==
    LET ns == SetToSeq(S)
    IN  [j \in 1..Len(ns) |->
            [chunk_number |-> disk.sinks[c].chunk, shard_number |-> ns[j],
             data |-> disk.sinks[c].payloads[ns[j] + 1]]]

\* decode_chunk on exactly k of the m shards of one emitted chunk
CwDecode ==
    /\ wr.pc = "finished"
    /\ ext.pc = "off"
    /\ \E c \in 1..Len(disk.sinks) :
         \E S \in SUBSET (0..(disk.sinks[c].m - 1)) :
            /\ Cardinality(S) = cfg.data_shards
            /\ ext' = [ext EXCEPT
                        !.pc = "decoded", !.chunk = c, !.picked = S,
                        !.out = decode_chunk(PayloadShards(c, S), cfg.data_shards,
                                             cfg.parity_shards,
                                             cw.chunks_created[c].compressed_size)]
    /\ UNCHANGED <<hdr, cfg, cw, wr, obs, disk, bld, sw, ver, tape, fname, sel>>

NextCW == CwWrite \/ WriteLoop \/ CwFlush \/ CwFinish \/ CwDecode

SpecCW == InitCW /\ [][NextCW]_vars


\* ------------------------------------------------------------------------
\* Properties of the chunk writer (SpecCW)
\* ------------------------------------------------------------------------
\* the input bytes that landed in chunk c, in input order
StreamOfChunk(c) ==
    LET idx == SetToSeq({i \in 1..Len(obs.landed) : obs.landed[i] = c})
    IN  [j \in 1..Len(idx) |-> obs.stream[idx[j]]]

\* the bytes of chunk c before erasure coding
OriginalChunkBytes(c) ==
    IF cfg.no_compression THEN StreamOfChunk(c) ELSE ZstdFrame(StreamOfChunk(c))

\* C2: for every emitted chunk and every choice of exactly k of its m shards,
\* decode_chunk on those k shards succeeds and returns the chunk's original
\* compressed bytes.
C2_AnyKShardsReconstruct ==
    ext.pc = "decoded" =>
        /\ ext.out.ok
        /\ ext.out.bytes = OriginalChunkBytes(disk.sinks[ext.chunk].chunk)

C2_Witness ==
    /\ ext.pc = "decoded"
    /\ Cardinality(ext.picked) = cfg.data_shards
    /\ \E i \in ext.picked : i >= cfg.data_shards
    /\ \E i \in 0..(cfg.data_shards - 1) : i \notin ext.picked
    /\ disk.sinks[ext.chunk].padlen > 0
    /\ ext.out.ok
    /\ Len(ext.out.bytes) > 0

\* C5: whenever a write call accepts at least one byte, the first byte it
\* accepts lands in the chunk that current_chunk_number() reported just before
\* the call; before the first write current_chunk_number() is 1.
C5_ReportsChunkOfNextByte ==
    /\ Len(obs.landed) > obs.callStart =>
          obs.landed[obs.callStart + 1] = obs.reported
    /\ (Len(obs.stream) = 0 /\ wr.pc = "idle") => current_chunk_number(cw) = 1

\* C7: after finish the emitted chunks carry the numbers 1..n, without gap or
\* repeat, and their shard groups were written in that order.
C7_DenseAscendingChunkNumbers ==
    wr.pc = "finished" =>
        /\ Len(disk.sinks) = Len(cw.chunks_created)
        /\ \A i \in 1..Len(cw.chunks_created) :
              /\ cw.chunks_created[i].chunk_number = i
              /\ disk.sinks[i].chunk = i

C7_Witness ==
    /\ wr.pc = "finished"
    /\ Len(cw.chunks_created) >= 3
    /\ cw.chunks_created[3].chunk_number = 3

\* C8: after finish every chunk has uncompressed_size <= chunk_size, every
\* chunk but the last has exactly chunk_size, and the sizes sum to the number
\* of bytes written.
C8_ChunkSizes ==
    wr.pc = "finished" =>
        LET cs == cw.chunks_created
        IN  /\ \A i \in 1..Len(cs) : cs[i].uncompressed_size <= cfg.chunk_size
            /\ \A i \in 1..(Len(cs) - 1) : cs[i].uncompressed_size = cfg.chunk_size
            /\ SumSeq([i \in 1..Len(cs) |-> cs[i].uncompressed_size]) = Len(obs.stream)

C8_Witness ==
    /\ wr.pc = "finished"
    /\ Len(cw.chunks_created) >= 2
    /\ cw.chunks_created[Len(cw.chunks_created)].uncompressed_size < cfg.chunk_size
    /\ cw.chunks_created[1].uncompressed_size = cfg.chunk_size

\* C10: for every emitted chunk shard_size is the least s with k*s >=
\* compressed_size, the padlen written to its headers is k*shard_size -
\* compressed_size, and 0 <= padlen < k.
C10_ShardSizeAndPadlen ==
    \A i \in 1..Len(cw.chunks_created) :
        LET c == cw.chunks_created[i]
            g == disk.sinks[i]
        IN  /\ g.k * c.shard_size >= c.compressed_size
            /\ g.k * (c.shard_size - 1) < c.compressed_size
            /\ g.padlen = g.k * c.shard_size - c.compressed_size
            /\ 0 <= g.padlen /\ g.padlen < g.k
            /\ \A j \in 1..g.m : Len(g.payloads[j]) = c.shard_size

C10_Witness ==
    \E i \in 1..Len(cw.chunks_created) : \E j \in 1..Len(cw.chunks_created) :
        /\ disk.sinks[i].padlen = 2
        /\ disk.sinks[j].padlen = 0
        /\ disk.sinks[i].k = 3


\* ------------------------------------------------------------------------
\* Archive creation and extraction (SpecArch): ArchiveBuilder::create on a
\* tree of regular files, loss of shard files and of the index, then
\* ArchiveExtractor::extract
\* ------------------------------------------------------------------------
\* the (data_shards, parity_shards) pairs archives are built with: packed
\* headers of 10 and of 16 bits, and pairs validate rejects
ArchShardPairs == {<<1, 1>>, <<MaxDataShards, MaxParityShards>>, <<0, 1>>, <<1, 0>>}

ArchConfigs ==
    {c \in [has_chunk_size : BOOLEAN,
            chunk_size : {0} \cup (TarBlock..MaxChunkSize),
            compression_level : {DEFAULT_COMPRESSION_LEVEL},
            no_compression : BOOLEAN,
            no_index : BOOLEAN,
            data_shards : 0..MaxDataShards,
            parity_shards : 0..MaxParityShards] :
        /\ ~c.has_chunk_size => c.chunk_size = 0
        /\ <<c.data_shards, c.parity_shards>> \in ArchShardPairs}

\* the input trees: up to MaxFiles regular files, given by their sizes
FileTrees == UNION {[1..n -> 0..MaxFileSize] : n \in 0..MaxFiles}

InitArch ==
    /\ cfg \in ArchConfigs
    /\ \E files \in FileTrees : bld = [IdleBld EXCEPT !.pc = "start", !.files = files]
    /\ cw = NewWriter(cfg.chunk_size, cfg.compression_level, cfg.data_shards,
                      cfg.parity_shards, cfg.no_compression)
    /\ wr = IdleWr
    /\ obs = IdleObs
    /\ disk = EmptyDisk
    /\ hdr = IdleHdr
    /\ ext = IdleExt
    /\ sw = NoSinks
    /\ ver = NoVerify
    /\ tape = NoTape
    /\ fname = NoName
    /\ sel = NoSel

\* create: validate, then create_single as a whole or the start of
\* create_chunked
BldCreate ==
    /\ bld.pc = "start"
    /\ IF ~validate(cfg)
       THEN /\ bld' = [bld EXCEPT !.pc = "failed"]
            /\ UNCHANGED <<cw, disk>>
       ELSE IF ~cfg.has_chunk_size
       THEN LET r == create_single(disk, cfg, bld.files)
            IN  /\ disk' = r.disk
                /\ bld' = [bld EXCEPT !.pc = "done", !.chunks = r.chunks]
                /\ UNCHANGED cw
       ELSE /\ cw' = NewWriter(cfg.chunk_size, cfg.compression_level, cfg.data_shards,
                               cfg.parity_shards, cfg.no_compression)
            /\ bld' = [bld EXCEPT !.pc = IF Len(bld.files) = 0 THEN "trailer" ELSE "file",
                                  !.next = 1]
            /\ UNCHANGED disk
    /\ UNCHANGED <<hdr, cfg, wr, obs, ext, sw, ver, tape, fname, sel>>

\* create_chunked, one file: chunk_number is read, then the tar header block
\* is written
BldBeginFile ==
    /\ bld.pc = "file"
    /\ wr.pc = "idle"
    /\ bld' = [bld EXCEPT !.pc = "header",
                          !.chunk_number = current_chunk_number(cw),
                          !.from = Len(obs.stream)]
    /\ SetWorld(write_begin(World, TarHeader(bld.next, bld.files[bld.next])))
    /\ UNCHANGED <<hdr, cfg, ext, sw, ver, tape, fname, sel>>

\* the file's bytes are copied into the tar stream
BldWriteData ==
    /\ bld.pc = "header"
    /\ wr.pc = "idle"
    /\ bld' = [bld EXCEPT !.pc = "data"]
    /\ SetWorld(write_begin(World, FileData(bld.next, bld.files[bld.next])))
    /\ UNCHANGED <<hdr, cfg, ext, sw, ver, tape, fname, sel>>

\* the record is padded to a whole block
BldWritePad ==
    /\ bld.pc = "data"
    /\ wr.pc = "idle"
    /\ bld' = [bld EXCEPT !.pc = "pad"]
    /\ SetWorld(write_begin(World, TarPadding(bld.files[bld.next])))
    /\ UNCHANGED <<hdr, cfg, ext, sw, ver, tape, fname, sel>>

\* flush, final_chunk is read, the FileEntry is pushed
BldEndFile ==
    /\ bld.pc = "pad"
    /\ wr.pc = "idle"
    /\ bld' = [bld EXCEPT
                 !.pc = IF bld.next = Len(bld.files) THEN "trailer" ELSE "file",
                 !.next = @ + 1,
                 !.file_entries = Append(@,
                     FileEntryOf(bld.next, bld.files[bld.next], bld.chunk_number,
                                 current_chunk_number(cw), bld.from, Len(obs.stream)))]
    /\ UNCHANGED <<hdr, cfg, cw, wr, obs, disk, ext, sw, ver, tape, fname, sel>>

\* tar_builder.finish()
BldTarFinish ==
    /\ bld.pc = "trailer"
    /\ wr.pc = "idle"
    /\ bld' = [bld EXCEPT !.pc = "finishing"]
    /\ SetWorld(write_begin(World, TarTrailer))
    /\ UNCHANGED <<hdr, cfg, ext, sw, ver, tape, fname, sel>>

\* chunking_writer.finish(), then the index unless no_index
BldFinish ==
    /\ bld.pc = "finishing"
    /\ wr.pc = "idle"
    /\ LET r == writer_finish(cw, disk)
       IN  /\ cw' = r.cw
           /\ wr' = [wr EXCEPT !.pc = IF r.ok THEN "finished" ELSE "failed"]
           /\ disk' = IF r.ok /\ ~cfg.no_index
                      THEN write_index(r.disk, cfg, bld.file_entries, r.cw.chunks_created)
                      ELSE r.disk
           /\ bld' = [bld EXCEPT !.pc = IF r.ok THEN "done" ELSE "failed",
                                 !.chunks = Len(r.cw.chunks_created)]
    /\ UNCHANGED <<hdr, cfg, obs, ext, sw, ver, tape, fname, sel>>

\* the shard files of numbers S of the chunks C
LostKeys(C, S) == {key \in DOMAIN disk.shards : key[1] \in C /\ key[2] \in S}

\* the chunks that lose shard files: every chunk, the first or the last one
ChunkSets ==
    {{key[1] : key \in DOMAIN disk.shards}}
        \cup {{key[1]} : key \in {x \in DOMAIN disk.shards :
                                     \/ \A y \in DOMAIN disk.shards : x[1] <= y[1]
                                     \/ \A y \in DOMAIN disk.shards : x[1] >= y[1]}}

\* up to parity_shards + 1 shard files are lost from every chunk, or from one
DeleteShards ==
    /\ bld.pc = "done"
    /\ ext.pc = "off"
    /\ ver.pc = "off"
    /\ disk.lost = {}
    /\ \E C \in ChunkSets, S \in SUBSET (0..(cfg.data_shards + cfg.parity_shards - 1)) :
         LET lost == LostKeys(C, S)
         IN  /\ Cardinality(S) <= cfg.parity_shards + 1
             /\ lost # {}
             /\ disk' = [disk EXCEPT
                           !.lost = lost,
                           !.shards = [key \in DOMAIN disk.shards \ lost |->
                                          disk.shards[key]]]
    /\ UNCHANGED <<hdr, cfg, cw, wr, obs, bld, ext, sw, ver, tape, fname, sel>>

\* the index file is lost
DeleteIndex ==
    /\ bld.pc = "done"
    /\ ext.pc = "off"
    /\ disk.index.present
    /\ disk' = [disk EXCEPT !.index.present = FALSE]
    /\ UNCHANGED <<hdr, cfg, cw, wr, obs, bld, ext, sw, ver, tape, fname, sel>>

\* the chunks shards_by_chunk.values().next() can yield; it is read only
\* when no index is used
FirstChunks ==
    IF (find_index_file(disk) /\ disk.index.readable) \/ DOMAIN disk.shards = {}
    THEN {0}
    ELSE {key[1] : key \in DOMAIN disk.shards}

\* ArchiveExtractor::extract into an empty output directory
Extract ==
    /\ bld.pc = "done"
    /\ ext.pc \in {"off", "decoded"}
    /\ \E partial \in BOOLEAN : \E first \in FirstChunks :
            ext' = [ext EXCEPT !.pc = "extracted", !.partial = partial,
                               !.res = extract(disk, partial, first)]
    /\ UNCHANGED <<hdr, cfg, cw, wr, obs, disk, bld, sw, ver, tape, fname, sel>>

NextArch ==
    \/ BldCreate \/ BldBeginFile \/ BldWriteData \/ BldWritePad \/ BldEndFile
    \/ BldTarFinish \/ BldFinish \/ WriteLoop
    \/ DeleteShards \/ DeleteIndex \/ Extract

SpecArch == InitArch /\ [][NextArch]_vars


\* ------------------------------------------------------------------------
\* Builds at the limits of the parameters (SpecBuild): ArchiveBuilder::create
\* alone, with shard counts around the limits of validate and of the zfec
\* header, and compression levels around the valid range
\* ------------------------------------------------------------------------
\* shard pairs of everyday size and pairs validate rejects
SmallShardPairs == {<<1, 1>>, <<MaxDataShards, MaxParityShards>>, <<0, 1>>, <<1, 0>>}

\* totals of ZFEC_MAX_SHARDS, of MAX_TOTAL_SHARDS and one more
LimitShardPairs ==
    {<<1, ZFEC_MAX_SHARDS - 1>>, <<1, MAX_TOTAL_SHARDS - 1>>, <<1, MAX_TOTAL_SHARDS>>}

BuildLevels ==
    {MIN_COMPRESSION_LEVEL - 1, DEFAULT_COMPRESSION_LEVEL, MAX_COMPRESSION_LEVEL + 1}

BuildConfigs ==
    {c \in [has_chunk_size : BOOLEAN,
            chunk_size : {0} \cup (TarBlock..MaxChunkSize),
            compression_level : BuildLevels,
            no_compression : BOOLEAN,
            no_index : BOOLEAN,
            data_shards : 0..MaxDataShards,
            parity_shards : 0..MAX_TOTAL_SHARDS] :
        /\ ~c.has_chunk_size => c.chunk_size = 0
        /\ \/ <<c.data_shards, c.parity_shards>> \in SmallShardPairs
           \/ /\ <<c.data_shards, c.parity_shards>> \in LimitShardPairs
              /\ c.compression_level = DEFAULT_COMPRESSION_LEVEL
              /\ ~c.no_compression /\ ~c.no_index
              /\ c.chunk_size \in {0, MaxChunkSize}}

InitBuild ==
    /\ cfg \in BuildConfigs
    /\ \E files \in FileTrees : bld = [IdleBld EXCEPT !.pc = "start", !.files = files]
    /\ cw = NewWriter(cfg.chunk_size, cfg.compression_level, cfg.data_shards,
                      cfg.parity_shards, cfg.no_compression)
    /\ wr = IdleWr
    /\ obs = IdleObs
    /\ disk = EmptyDisk
    /\ hdr = IdleHdr
    /\ ext = IdleExt
    /\ sw = NoSinks
    /\ ver = NoVerify
    /\ tape = NoTape
    /\ fname = NoName
    /\ sel = NoSel

NextBuild ==
    \/ BldCreate \/ BldBeginFile \/ BldWriteData \/ BldWritePad \/ BldEndFile
    \/ BldTarFinish \/ BldFinish \/ WriteLoop

SpecBuild == InitBuild /\ [][NextBuild]_vars

\* create returned Err
BuildFailed == bld.pc = "failed" \/ wr.pc = "failed"

\* create has read no input and created no output file
NoIO ==
    /\ bld.pc \in {"start", "failed"}
    /\ Len(obs.stream) = 0
    /\ DOMAIN disk.shards = {}
    /\ ~disk.index.present
    /\ ~disk.tarzst.present


\* ------------------------------------------------------------------------
\* Properties of builds (SpecBuild)
\* ------------------------------------------------------------------------
\* shard file n of chunk c exists and holds its header and its whole payload
ShardComplete(c, n) ==
    /\ ShardKey(c, n) \in DOMAIN disk.shards
    /\ \E i \in 1..Len(disk.sinks) :
          /\ disk.sinks[i].chunk = c
          /\ n < disk.sinks[i].m
          /\ LET file == disk.shards[ShardKey(c, n)]
                 payload == disk.sinks[i].payloads[n + 1]
             IN  /\ Len(file) > Len(payload)
                 /\ Drop(file, Len(file) - Len(payload)) = payload

\* every shard of every chunk the index lists is completely written
IndexedShardsComplete ==
    \A i \in 1..Len(disk.index.chunks) :
        \A n \in 0..(disk.index.k + disk.index.parity - 1) :
            ShardComplete(disk.index.chunks[i].chunk_number, n)

\* C11: at every point of a build, if the index file has been written then
\* every shard of every chunk listed in it is completely written, and a build
\* that failed has written no index.
C11_IndexWrittenLast ==
    /\ disk.index.present => IndexedShardsComplete
    /\ BuildFailed => ~disk.index.present

\* the same for builds with a chunk_size (create_chunked)
C11_ChunkedIndexWrittenLast ==
    cfg.has_chunk_size => C11_IndexWrittenLast

\* a chunked build failed at a chunk before anything of the index was written
C11_FailedChunkedBuild ==
    cfg.has_chunk_size /\ wr.pc = "failed" /\ Len(obs.stream) > 0


\* the parameters create has to reject: k = 0, m - k = 0, m > 256, m > 255 when
\* zfec headers are written (shards are written by create_chunked only), a
\* compression level out of range unless compression is bypassed
BadParams ==
    \/ cfg.data_shards = 0
    \/ cfg.parity_shards = 0
    \/ cfg.data_shards + cfg.parity_shards > MAX_TOTAL_SHARDS
    \/ cfg.has_chunk_size /\ cfg.data_shards + cfg.parity_shards > ZFEC_MAX_SHARDS
    \/ ~cfg.no_compression /\ ~validate_compression_level(cfg.compression_level)

\* C12: create rejects every bad parameter tuple before it reads any input
\* file or creates any output file.
C12_RejectsBeforeIO ==
    BadParams => NoIO

\* what validate does reject is rejected before any I/O
C12_ValidateRejectsBeforeIO ==
    ~validate(cfg) => NoIO


\* what a configuration needs besides its shard counts: a compression level
\* in range unless compression is bypassed, and a chunk_size of at least one
\* byte if one is given
OtherParamsValid ==
    /\ cfg.no_compression \/ validate_compression_level(cfg.compression_level)
    /\ cfg.has_chunk_size => cfg.chunk_size >= 1

ShardCountsAccepted ==
    /\ cfg.data_shards >= 1 /\ cfg.parity_shards >= 1
    /\ \/ cfg.data_shards + cfg.parity_shards <= ZFEC_MAX_SHARDS
       \/ /\ cfg.data_shards + cfg.parity_shards = MAX_TOTAL_SHARDS
          /\ ~cfg.has_chunk_size

SingleChunkShardKeys ==
    {ShardKey(1, n) : n \in 0..(cfg.data_shards + cfg.parity_shards - 1)}

\* C14: when no chunk_size is given, a finished create has emitted exactly
\* one chunk, numbered 1, as m shard files <base>.c001.sSS, each one complete
\* in the format chunked mode uses (zfec header, then the payload).
C14_SingleChunkAsShards ==
    (bld.pc = "done" /\ ~cfg.has_chunk_size)
    => /\ DOMAIN disk.shards = SingleChunkShardKeys
       /\ \A key \in SingleChunkShardKeys : ShardComplete(key[1], key[2])

\* the same build with a chunk_size large enough for the whole stream does
\* emit chunk 1 as m complete shard files
C14_ChunkedOneChunk ==
    /\ bld.pc = "done" /\ cfg.has_chunk_size
    /\ Len(disk.sinks) = 1
    /\ DOMAIN disk.shards = SingleChunkShardKeys
    /\ \A key \in SingleChunkShardKeys : ShardComplete(key[1], key[2])


\* ------------------------------------------------------------------------
\* Properties of creation and extraction (SpecArch)
\* ------------------------------------------------------------------------
\* a chunked, compressed archive was built with valid parameters
BuiltChunked ==
    /\ bld.pc = "done"
    /\ cfg.has_chunk_size /\ cfg.chunk_size >= 1
    /\ ~cfg.no_compression

\* the number of shard files of chunk c that were lost
LostOf(c) == Cardinality({key \in disk.lost : key[1] = c})

\* C1: an archive built by create with valid (k, m, chunk_size, level) and
\* extracted with all shards and the index present yields exactly the input
\* file tree.
C1_CreateExtractRoundTrip ==
    (/\ BuiltChunked
     /\ ext.pc = "extracted"
     /\ disk.lost = {}
     /\ disk.index.present)
    => (ext.res.ok /\ ext.res.tree = InputTree(bld.files))

\* C3: after the index file and exactly m - k shards of every chunk are
\* deleted, extract succeeds and the recovered tree equals the input tree.
C3_IndexlessRecovery ==
    (/\ BuiltChunked
     /\ ext.pc = "extracted"
     /\ ~cfg.no_index /\ ~disk.index.present
     /\ \A i \in 1..Len(disk.sinks) : LostOf(disk.sinks[i].chunk) = cfg.parity_shards)
    => (ext.res.ok /\ ext.res.tree = InputTree(bld.files))

\* the chunks that hold bytes of the tar record of index entry e
RecordChunks(e) == {obs.landed[j] : j \in (e.from + 1)..e.to}

\* C6: in the index of a chunked archive spans_chunks is recorded for a file
\* exactly when its tar record crosses a chunk boundary, and then lists, in
\* ascending order, exactly the chunks that hold bytes of the record.
C6_SpansChunksExact ==
    (bld.pc = "done" /\ cfg.has_chunk_size /\ disk.index.present) =>
        \A i \in 1..Len(disk.index.files) :
            LET e == disk.index.files[i]
            IN  /\ (e.spans_chunks # <<>>) <=> (Cardinality(RecordChunks(e)) > 1)
                /\ (e.spans_chunks # <<>>) => (e.spans_chunks = SetToSeq(RecordChunks(e)))

\* C9: an archive built from one regular file of S >= 1 bytes with chunk size
\* C has exactly ceil(S / C) chunks.
C9_SingleFileChunkCount ==
    (/\ bld.pc = "done"
     /\ cfg.has_chunk_size /\ cfg.chunk_size >= 1
     /\ Len(bld.files) = 1 /\ bld.files[1] >= 1)
    => bld.chunks = (bld.files[1] + cfg.chunk_size - 1) \div cfg.chunk_size


\* ------------------------------------------------------------------------
\* The zfec header codec on its own: a header is built, encoded, decoded
\* ------------------------------------------------------------------------
HdrBigM == {17, 33, 64, 65, 129, 200, 255}
HdrBigK == {1, 2, 5, 16, 17, 64, 129, 200, 255}

\* the (k, m, sharenum, padlen) the codec is tried on: all of them for small
\* m, and a sample that reaches every header length for large m
HdrInputs ==
    {<<k, m, sharenum, padlen>> \in
        (1..MaxHdrSmallM) \X (1..MaxHdrSmallM) \X (0..(MaxHdrSmallM - 1)) \X (0..15) :
        k <= m /\ sharenum < m /\ padlen < Pow2(log2_ceil(k))}
    \cup
    {<<k, m, sharenum, padlen>> \in HdrBigK \X HdrBigM \X {0, 1, 16, 254} \X {0, 1, 255} :
        k <= m /\ sharenum < m /\ padlen < Pow2(log2_ceil(k))}

InitHdr ==
    /\ hdr = [IdleHdr EXCEPT !.stage = "start"]
    /\ cfg = IdleCfg
    /\ cw = NewWriter(0, DEFAULT_COMPRESSION_LEVEL, 1, 1, FALSE)
    /\ wr = IdleWr
    /\ obs = IdleObs
    /\ disk = EmptyDisk
    /\ bld = IdleBld
    /\ ext = IdleExt
    /\ sw = NoSinks
    /\ ver = NoVerify
    /\ tape = NoTape
    /\ fname = NoName
    /\ sel = NoSel

\* ZfecHeader::new
HdrNew ==
    /\ hdr.stage = "start"
    /\ \E x \in HdrInputs :
         hdr' = [hdr EXCEPT !.stage = "new", !.h = ZfecHeaderNew(x[1], x[2], x[3], x[4])]
    /\ UNCHANGED <<cfg, cw, wr, obs, disk, bld, ext, sw, ver, tape, fname, sel>>

\* ZfecHeader::encode
HdrEncode ==
    /\ hdr.stage = "new"
    /\ hdr.h.ok
    /\ hdr' = [hdr EXCEPT !.stage = "encoded", !.enc = ZfecEncode(hdr.h)]
    /\ UNCHANGED <<cfg, cw, wr, obs, disk, bld, ext, sw, ver, tape, fname, sel>>

\* ZfecHeader::decode of the encoded bytes
HdrDecode ==
    /\ hdr.stage = "encoded"
    /\ hdr.enc.ok
    /\ hdr' = [hdr EXCEPT !.stage = "decoded", !.dec = ZfecDecode(hdr.enc.bytes)]
    /\ UNCHANGED <<cfg, cw, wr, obs, disk, bld, ext, sw, ver, tape, fname, sel>>

NextHdr == HdrNew \/ HdrEncode \/ HdrDecode

SpecHdr == InitHdr /\ [][NextHdr]_vars

\* C4: for every (k, m, sharenum, padlen) with 1 <= k <= m <= 255, sharenum < m
\* and padlen < 2^ceil(log2(k)), the encoding is 2, 3 or 4 bytes long and
\* decoding it returns exactly (k, m, sharenum, padlen).
C4_HeaderRoundTrip ==
    /\ hdr.stage \in {"encoded", "decoded"} =>
          hdr.enc.ok /\ Len(hdr.enc.bytes) \in {2, 3, 4}
    /\ hdr.stage = "decoded" => hdr.dec = hdr.h

\* the part of C4 the code does satisfy, kept for reference: when the packed
\* fields fill the bytes exactly or the header is 3 bytes long
HdrAligned(h) ==
    \/ HeaderTotalBits(h) \in {16, 32}
    \/ (HeaderTotalBits(h) > 16 /\ HeaderTotalBits(h) <= 24)

HdrAlignedRoundTrip ==
    (hdr.stage = "decoded" /\ HdrAligned(hdr.h)) => hdr.dec = hdr.h

\* ------------------------------------------------------------------------
\* Recovery from damaged archives (SpecRecover): compressed chunked archives
\* that lose shard files or the use of their index, then are reconstructed
\* chunk by chunk with decode_chunk and extracted
\* ------------------------------------------------------------------------
RecoverConfigs ==
    {c \in ArchConfigs : /\ c.has_chunk_size /\ c.chunk_size >= 1
                         /\ ~c.no_compression
                         /\ c.data_shards >= 1 /\ c.parity_shards >= 1}

MaxRecoverFiles == 1

\* the input trees of the archives that get damaged
RecoverTrees == UNION {[1..n -> 0..MaxFileSize] : n \in 0..MaxRecoverFiles}

InitRecover ==
    /\ cfg \in RecoverConfigs
    /\ \E files \in RecoverTrees : bld = [IdleBld EXCEPT !.pc = "start", !.files = files]
    /\ cw = NewWriter(cfg.chunk_size, cfg.compression_level, cfg.data_shards,
                      cfg.parity_shards, cfg.no_compression)
    /\ wr = IdleWr
    /\ obs = IdleObs
    /\ disk = EmptyDisk
    /\ hdr = IdleHdr
    /\ ext = IdleExt
    /\ sw = NoSinks
    /\ ver = NoVerify
    /\ tape = NoTape
    /\ fname = NoName
    /\ sel = NoSel

\* the index file is overwritten with bytes read_index cannot decompress or
\* parse
CorruptIndex ==
    /\ bld.pc = "done"
    /\ ext.pc = "off"
    /\ disk.index.present /\ disk.index.readable
    /\ disk' = [disk EXCEPT !.index.readable = FALSE]
    /\ UNCHANGED <<hdr, cfg, cw, wr, obs, bld, ext, sw, ver, tape, fname, sel>>

\* the shards of the i-th chunk written that discover_shards finds
ShardsLeft(shards_by_chunk, c) ==
    IF c \in DOMAIN shards_by_chunk THEN shards_by_chunk[c] ELSE <<>>

\* decode_chunk on the shards left of one chunk, with the compressed size the
\* writer recorded as expected size
Reconstruct ==
    /\ bld.pc = "done"
    /\ ext.pc = "off"
    /\ \E i \in 1..Len(cw.chunks_created) :
         ext' = [ext EXCEPT
                   !.pc = "decoded", !.chunk = cw.chunks_created[i].chunk_number,
                   !.out = decode_chunk(
                              ShardsLeft(discover_shards(disk),
                                         cw.chunks_created[i].chunk_number),
                              cfg.data_shards, cfg.parity_shards,
                              cw.chunks_created[i].compressed_size)]
    /\ UNCHANGED <<hdr, cfg, cw, wr, obs, disk, bld, sw, ver, tape, fname, sel>>

NextRecover ==
    \/ BldCreate \/ BldBeginFile \/ BldWriteData \/ BldWritePad \/ BldEndFile
    \/ BldTarFinish \/ BldFinish \/ WriteLoop
    \/ DeleteShards \/ DeleteIndex \/ CorruptIndex \/ Reconstruct \/ Extract

SpecRecover == InitRecover /\ [][NextRecover]_vars

\* ------------------------------------------------------------------------
\* Misnamed shard files (SpecMisname): a shard file of a finished archive is
\* overwritten with the bytes of another shard of the same chunk, so that its
\* header names another shard number than its file name does
\* ------------------------------------------------------------------------
MisnameShard ==
    /\ bld.pc = "done"
    /\ ext.pc = "off"
    /\ disk.lost = {}
    /\ \E C \in ChunkSets : \E from \in DOMAIN disk.shards, to \in DOMAIN disk.shards :
         /\ C = {from[1]} /\ from[1] = to[1] /\ from[2] # to[2]
         /\ disk' = [disk EXCEPT !.lost = {to},
                                 !.shards = [disk.shards EXCEPT ![to] = disk.shards[from]]]
    /\ UNCHANGED <<hdr, cfg, cw, wr, obs, bld, ext, sw, ver, tape, fname, sel>>

NextMisname ==
    \/ BldCreate \/ BldBeginFile \/ BldWriteData \/ BldWritePad \/ BldEndFile
    \/ BldTarFinish \/ BldFinish \/ WriteLoop
    \/ MisnameShard \/ Reconstruct \/ Extract

SpecMisname == InitRecover /\ [][NextMisname]_vars

\* ------------------------------------------------------------------------
\* Properties of extraction from damaged archives (SpecArch)
\* ------------------------------------------------------------------------
\* the chunks create wrote
ChunksBuilt == {disk.sinks[i].chunk : i \in 1..Len(disk.sinks)}

\* the number of shard files of chunk c still on disk
PresentOf(c) == Cardinality({key \in DOMAIN disk.shards : key[1] = c})

\* extract reads the index and goes through extract_with_index
UsesIndex == find_index_file(disk) /\ disk.index.readable

\* the chunks extract knows of: those of the index, or those it discovers
\* from the shard files present
ChunksKnown ==
    IF UsesIndex THEN ChunksBuilt ELSE {c \in ChunksBuilt : PresentOf(c) > 0}

\* the known chunks with fewer than k shard files left
ChunksShort == {c \in ChunksKnown : PresentOf(c) < cfg.data_shards}

\* a chunked, compressed archive whose zfec headers fill whole bytes, extracted
AlignedExtracted ==
    /\ BuiltChunked
    /\ HdrAligned([k |-> cfg.data_shards, m |-> cfg.data_shards + cfg.parity_shards])
    /\ ext.pc = "extracted"

\* what extract does about chunks that cannot be reconstructed
FailedChunksHandled ==
    IF ext.partial
    THEN /\ ext.res.ok
         /\ ext.res.chunks_failed = Cardinality(ChunksShort)
         /\ ext.res.chunks_recovered = Cardinality(ChunksKnown \ ChunksShort)
    ELSE /\ ~ext.res.ok
         /\ ext.res.err = "ErasureCoding"
         /\ ext.res.tree = {}

\* C16: for every chunk, known from the index or discovered without it, whose
\* reconstruction fails: without partial, extract aborts with an ErasureCoding
\* error and unpacks no tar entry; with partial, the chunk is counted in
\* chunks_failed and extraction continues with the other chunks.
C16_FailedChunkHandling ==
    (AlignedExtracted /\ ChunksShort # {}) => FailedChunksHandled

\* the same with the index present: extract_with_index does as stated
C16_FailedChunkHandlingIndexed ==
    (AlignedExtracted /\ ChunksShort # {} /\ UsesIndex) => FailedChunksHandled

\* ------------------------------------------------------------------------
\* Properties of recovery (SpecRecover)
\* ------------------------------------------------------------------------
\* decode_chunk was applied to a chunk that has fewer than k shards left
ReconstructedShort ==
    /\ ext.pc \in {"decoded", "extracted"}
    /\ ext.chunk # 0
    /\ PresentOf(ext.chunk) < cfg.data_shards

\* extract ran without partial on an archive with a chunk short of shards
ExtractedShortStrict ==
    /\ ext.pc = "extracted"
    /\ ~ext.partial
    /\ ChunksShort # {}

\* the statement of C17 as made: with k-1 or fewer shards left decode_chunk
\* fails with InsufficientShards, and extract without partial returns that
\* InsufficientShards error
C17_ExtractReturnsInsufficientShards ==
    /\ ReconstructedShort => (~ext.out.ok /\ ext.out.err = "InsufficientShards")
    /\ ExtractedShortStrict => (~ext.res.ok /\ ext.res.err = "InsufficientShards")

\* C17 (amended): when a chunk retains k-1 or fewer of its shards, decode_chunk
\* on them fails with InsufficientShards; extract never returns
\* InsufficientShards to its caller: without partial and with the index read,
\* it returns an ErasureCoding error.
C17_InsufficientShardsInDecodeOnly ==
    /\ ReconstructedShort => (~ext.out.ok /\ ext.out.err = "InsufficientShards")
    /\ ext.pc = "extracted" => ext.res.err # "InsufficientShards"
    /\ (ExtractedShortStrict /\ UsesIndex)
       => (~ext.res.ok /\ ext.res.err = "ErasureCoding")

\* a chunk of k = 3 data shards with two shards left was handed to
\* decode_chunk, then extract ran without partial and with the index
C17_Witness ==
    /\ ReconstructedShort
    /\ cfg.data_shards = MaxDataShards
    /\ PresentOf(ext.chunk) = cfg.data_shards - 1
    /\ ext.out.err = "InsufficientShards"
    /\ ExtractedShortStrict /\ UsesIndex
    /\ ext.res.err = "ErasureCoding"

\* extract ran with partial on an archive none of whose chunks has k shards left
ExtractedNothingPartial ==
    /\ ext.pc = "extracted"
    /\ ext.partial
    /\ ChunksBuilt # {}
    /\ \A c \in ChunksBuilt : PresentOf(c) < cfg.data_shards

\* success with every chunk failed and nothing extracted
NothingRecovered ==
    /\ ext.res.ok
    /\ ext.res.chunks_recovered = 0
    /\ ext.res.chunks_failed = Cardinality(ChunksBuilt)
    /\ ext.res.files_extracted = 0

\* C18: with partial, extracting an archive in which no chunk can be
\* reconstructed returns success with chunks_recovered = 0, chunks_failed equal
\* to the number of chunks and files_extracted = 0, with or without the index.
C18_PartialNothingRecovered ==
    ExtractedNothingPartial => NothingRecovered

\* the same with the index read: extract_with_index does as stated
C18_PartialNothingRecoveredIndexed ==
    (ExtractedNothingPartial /\ UsesIndex) => NothingRecovered

\* the index file exists but read_index fails on it
IndexCorrupt == disk.index.present /\ ~disk.index.readable

\* C19: if the index file exists but cannot be decompressed or parsed, extract
\* returns an error instead of completing an extraction.
C19_CorruptIndexIsError ==
    (ext.pc = "extracted" /\ IndexCorrupt) => ~ext.res.ok

\* the compressed_size the writer recorded for chunk c
RecordedSize(c) ==
    LET i == CHOOSE i \in 1..Len(cw.chunks_created) :
                 cw.chunks_created[i].chunk_number = c
    IN  cw.chunks_created[i].compressed_size

\* the shards found on disk whose header was read
HeadedShards(shards_by_chunk) ==
    {s \in UNION {{shards_by_chunk[c][j] : j \in 1..Len(shards_by_chunk[c])} :
                     c \in DOMAIN shards_by_chunk} : s.header.ok}

\* k * shard_size - padlen, with k from the header of shard first and
\* shard_size and padlen from shard s
ActualSize(first, s) == Len(s.data) * first.header.k - s.header.padlen

\* for every shard with a header, the size computed from it is the recorded
\* compressed size of its chunk; a chunk with k shards left, trimmed to the
\* size computed from its first shard as extract_from_shards_only does, is the
\* chunk's original compressed bytes
SizesFromHeaders(shards_by_chunk) ==
    /\ \A first \in HeadedShards(shards_by_chunk), s \in HeadedShards(shards_by_chunk) :
          ActualSize(first, s) = RecordedSize(s.chunk_number)
    /\ \A first \in HeadedShards(shards_by_chunk) :
          (/\ first = shards_by_chunk[first.chunk_number][1]
           /\ Len(shards_by_chunk[first.chunk_number]) >= first.header.k)
          => decode_chunk(shards_by_chunk[first.chunk_number], first.header.k,
                          first.header.m - first.header.k,
                          ActualSize(first, first)).bytes
             = OriginalChunkBytes(first.chunk_number)

verify_chunk_full(shards_by_chunk, index, chunk_info) ==
    /\ chunk_info.chunk_number \in DOMAIN shards_by_chunk
    /\ decode_chunk(shards_by_chunk[chunk_info.chunk_number], index.k, index.parity,
                    chunk_info.compressed_size).ok
    /\ Len(decode_chunk(shards_by_chunk[chunk_info.chunk_number], index.k,
                        index.parity, chunk_info.compressed_size).bytes)
          = chunk_info.compressed_size

\* the status after the shard count of a chunk was looked at
StatusAfterCount_Last(status, shards_available, data_shards, expected_shards) ==
    IF shards_available < data_shards THEN "Failed"
    ELSE IF shards_available < expected_shards THEN "Degraded"
    ELSE status

StatusAfterCount(status, shards_available, data_shards, expected_shards) ==
    IF shards_available < data_shards THEN "Failed"
    ELSE IF shards_available < expected_shards /\ status = "Healthy" THEN "Degraded"
    ELSE status

\* the status after full verification of a chunk returned Err
StatusAfterFullErr(status) ==
    IF status # "Failed" THEN "Degraded" ELSE status

\* the first half of the loop body of verify: counts and status
CountChunk(v, chunk_num, shards_available, data_shards, expected_shards) ==
    [v EXCEPT
       !.total_shards = v.total_shards + expected_shards,
       !.missing_shards = IF shards_available < expected_shards
                          THEN v.missing_shards + (expected_shards - shards_available)
                          ELSE v.missing_shards,
       !.chunks_unrecoverable = IF shards_available < data_shards
                                THEN v.chunks_unrecoverable \cup {chunk_num}
                                ELSE v.chunks_unrecoverable,
       !.status = StatusAfterCount(v.status, shards_available, data_shards,
                                   expected_shards)]

\* the second half: full verification, or the count of verified chunks
CheckChunk(v, chunk_num, is_recoverable, full_ok) ==
    IF v.full_mode /\ is_recoverable
    THEN IF full_ok
         THEN [v EXCEPT !.chunks_verified = v.chunks_verified + 1]
         ELSE [v EXCEPT !.chunks_failed = v.chunks_failed \cup {chunk_num},
                        !.status = StatusAfterFullErr(v.status)]
    ELSE IF ~v.full_mode /\ is_recoverable
    THEN [v EXCEPT !.chunks_verified = v.chunks_verified + 1]
    ELSE v

\* the number of shards discovered for a chunk
ShardsAvailable(shards_by_chunk, chunk_num) ==
    IF chunk_num \in DOMAIN shards_by_chunk THEN Len(shards_by_chunk[chunk_num]) ELSE 0

\* one iteration of the loop of verify over index.chunks
verify_chunk(v, shards_by_chunk, index, chunk_info) ==
    CheckChunk(
        CountChunk(v, chunk_info.chunk_number,
                   ShardsAvailable(shards_by_chunk, chunk_info.chunk_number),
                   index.k, index.k + index.parity),
        chunk_info.chunk_number,
        ShardsAvailable(shards_by_chunk, chunk_info.chunk_number) >= index.k,
        verify_chunk_full(shards_by_chunk, index, chunk_info))

\* the first shard file of the first or of the last chunk loses its last byte
TruncateShard ==
    /\ bld.pc = "done"
    /\ ext.pc = "off"
    /\ ver.pc = "off"
    /\ \A key \in DOMAIN disk.shards : ShardComplete(key[1], key[2])
    /\ \E C \in ChunkSets : \E key \in DOMAIN disk.shards :
         /\ C = {key[1]} /\ key[2] = 0
         /\ disk' = [disk EXCEPT !.shards[key] =
                        SubSeq(disk.shards[key], 1, Len(disk.shards[key]) - 1)]
    /\ UNCHANGED <<hdr, cfg, cw, wr, obs, bld, ext, sw, ver, tape, fname, sel>>

\* the first shard file of the first or of the last chunk is removed, when
\* that chunk has lost no file yet
RemoveShard ==
    /\ bld.pc = "done"
    /\ ext.pc = "off"
    /\ ver.pc = "off"
    /\ disk.lost # {}
    /\ \E C \in ChunkSets : \E key \in DOMAIN disk.shards :
         /\ C = {key[1]} /\ key[2] = 0
         /\ \A l \in disk.lost : l[1] # key[1]
         /\ disk' = [disk EXCEPT
                       !.lost = @ \cup {key},
                       !.shards = [x \in DOMAIN disk.shards \ {key} |->
                                      disk.shards[x]]]
    /\ UNCHANGED <<hdr, cfg, cw, wr, obs, bld, ext, sw, ver, tape, fname, sel>>

\* verify up to the loop: the index is found and read, or verify returns Err
VerifyBegin ==
    /\ bld.pc = "done"
    /\ ver.pc = "off"
    /\ \E full_mode \in BOOLEAN :
         ver' = IF ~find_index_file(disk)
                THEN [NoVerify EXCEPT !.pc = "error", !.err = "MissingIndex"]
                ELSE IF ~disk.index.readable
                THEN [NoVerify EXCEPT !.pc = "error", !.err = "Serialization"]
                ELSE [NoVerify EXCEPT !.pc = "loop", !.full_mode = full_mode]
    /\ UNCHANGED <<hdr, cfg, cw, wr, obs, disk, bld, ext, sw, tape, fname, sel>>

\* one chunk of the index is examined; the chunks are taken in any order
VerifyChunk ==
    /\ ver.pc = "loop"
    /\ \E i \in (1..Len(disk.index.chunks)) \ ver.examined :
         ver' = [verify_chunk(ver, discover_shards(disk), disk.index,
                              disk.index.chunks[i])
                   EXCEPT !.examined = ver.examined \cup {i}]
    /\ UNCHANGED <<hdr, cfg, cw, wr, obs, disk, bld, ext, sw, tape, fname, sel>>

\* the loop is over: the report is returned
VerifyEnd ==
    /\ ver.pc = "loop"
    /\ ver.examined = 1..Len(disk.index.chunks)
    /\ ver' = [ver EXCEPT !.pc = "done"]
    /\ UNCHANGED <<hdr, cfg, cw, wr, obs, disk, bld, ext, sw, tape, fname, sel>>

NextVerify ==
    \/ BldCreate \/ BldBeginFile \/ BldWriteData \/ BldWritePad \/ BldEndFile
    \/ BldTarFinish \/ BldFinish \/ WriteLoop
    \/ TruncateShard \/ DeleteShards \/ RemoveShard \/ VerifyBegin \/ VerifyChunk \/ VerifyEnd

SpecVerify == InitRecover /\ [][NextVerify]_vars

\* ------------------------------------------------------------------------
\* Properties of misnamed shard files (SpecMisname)
\* ------------------------------------------------------------------------
\* the shards handed to decode_chunk for chunk c: all that were discovered
ReconstructionInputs(c) ==
    {ShardsLeft(discover_shards(disk), c)[j] :
        j \in 1..Len(ShardsLeft(discover_shards(disk), c))}

\* the header of shard s was decoded and names another shard than the file name
Disagrees(s) == s.header.ok /\ s.header.sharenum # s.shard_number

\* C21: a shard whose decoded header disagrees with its file name is never an
\* input to chunk reconstruction: whenever decode_chunk ran on a chunk, no
\* shard handed to it disagrees, and an extraction that found such a shard
\* did not succeed with it.
C21_CorruptShardNeverUsed ==
    /\ (ext.pc \in {"decoded", "extracted"} /\ ext.chunk # 0)
       => \A s \in ReconstructionInputs(ext.chunk) : ~Disagrees(s)
    /\ (ext.pc = "extracted"
        /\ \E c \in ChunksBuilt : \E s \in ReconstructionInputs(c) : Disagrees(s))
       => ~ext.res.ok

\* ------------------------------------------------------------------------
\* Properties of verification (SpecVerify)
\* ------------------------------------------------------------------------
\* the indexed chunks that fail full-mode decoding
FailFullDecoding ==
    {i \in 1..Len(disk.index.chunks) :
        /\ ver.full_mode
        /\ PresentOf(disk.index.chunks[i].chunk_number) >= disk.index.k
        /\ ~verify_chunk_full(discover_shards(disk), disk.index, disk.index.chunks[i])}

\* the status the report must carry
StatusDue ==
    IF \E c \in ChunksBuilt : PresentOf(c) < cfg.data_shards THEN "Failed"
    ELSE IF \/ \E c \in ChunksBuilt : PresentOf(c) < cfg.data_shards + cfg.parity_shards
            \/ FailFullDecoding # {}
    THEN "Degraded"
    ELSE "Healthy"

\* C22: verify reports Failed exactly when some indexed chunk has fewer than k
\* shards available; otherwise Degraded exactly when some chunk has fewer
\* than m shards available or fails full-mode decoding; otherwise Healthy;
\* whatever the order in which the chunks are examined.
C22_VerifyStatus ==
    ver.pc = "done" => ver.status = StatusDue

\* a report of Failed on an archive with one chunk short of data_shards files
\* and another that lacks a file and can still be rebuilt
C22_Witness ==
    /\ ver.pc = "done"
    /\ ver.status = "Failed"
    /\ \E c \in ChunksBuilt : PresentOf(c) < cfg.data_shards
    /\ \E c \in ChunksBuilt :
         /\ PresentOf(c) >= cfg.data_shards
         /\ PresentOf(c) < cfg.data_shards + cfg.parity_shards

\* ------------------------------------------------------------------------
\* io/streaming_shard_writer.rs: one sink group over several write_shards calls
\* ------------------------------------------------------------------------
MaxSinkShards == 3
MaxSinkPadlen == 2
MaxShardLen == 2
MaxSinkCalls == 3

\* StreamingShardWriter::for_chunk
for_chunk(chunk_number, num_shards) ==
    [NoSinks EXCEPT !.pc = "open",
                    !.outputs = [i \in 1..num_shards |-> <<>>],
                    !.written = [i \in 1..num_shards |-> <<>>],
                    !.current_chunk = chunk_number]

\* StreamingShardWriter::for_chunk_with_headers
for_chunk_with_headers(chunk_number, data_shards, total_shards, padlen) ==
    [for_chunk(chunk_number, total_shards) EXCEPT
        !.has_ec = TRUE, !.k = data_shards, !.m = total_shards, !.padlen = padlen]

\* the header of every output as write_shards builds it
SinkHeaders(w) ==
    [i \in 1..Len(w.outputs) |->
        ShardHeaderBytes(ZfecHeaderNew(w.k, w.m, i - 1, w.padlen))]

\* the outputs before the first one whose header cannot be built
HeadersBuilt(es) ==
    {i \in 1..Len(es) : \A j \in 1..i : es[j].ok}

HeadersDone_Forget(w) == w

\* self.headers_written = true
HeadersDone(w) == [w EXCEPT !.headers_written = TRUE]

\* the header loop of write_shards: it stops at the first header that cannot
\* be built, leaving the headers written so far and the flag as it was
WriteHeaders(w, es) ==
    IF \A i \in 1..Len(es) : es[i].ok
    THEN [ok |-> TRUE,
          w |-> HeadersDone([w EXCEPT !.outputs =
                   [i \in 1..Len(es) |-> w.outputs[i] \o es[i].bytes]])]
    ELSE [ok |-> FALSE,
          w |-> [w EXCEPT !.outputs =
                   [i \in 1..Len(es) |->
                       IF i \in HeadersBuilt(es) THEN w.outputs[i] \o es[i].bytes
                       ELSE w.outputs[i]],
                 !.pc = "error"]]

\* the payload loop of write_shards
WritePayloads(r, shards) ==
    IF ~r.ok THEN r.w
    ELSE [r.w EXCEPT !.outputs = [i \in 1..Len(shards) |-> r.w.outputs[i] \o shards[i]],
                     !.written = [i \in 1..Len(shards) |-> r.w.written[i] \o shards[i]],
                     !.calls = r.w.calls + 1]

\* StreamingShardWriter::write_shards
write_shards(w, shards) ==
    IF Len(shards) # Len(w.outputs) THEN [w EXCEPT !.pc = "error"]
    ELSE IF w.has_ec /\ ~w.headers_written
    THEN WritePayloads(WriteHeaders(w, SinkHeaders(w)), shards)
    ELSE WritePayloads([ok |-> TRUE, w |-> w], shards)

\* StreamingShardWriter::finish: bytes written per output
sink_finish(w) ==
    [w EXCEPT !.pc = "finished",
              !.sizes = [i \in 1..Len(w.outputs) |-> Len(w.outputs[i])]]

InitSink ==
    /\ hdr = IdleHdr
    /\ cfg = IdleCfg
    /\ cw = NewWriter(0, DEFAULT_COMPRESSION_LEVEL, 1, 1, FALSE)
    /\ wr = IdleWr
    /\ obs = IdleObs
    /\ disk = EmptyDisk
    /\ bld = IdleBld
    /\ ext = IdleExt
    /\ sw = NoSinks
    /\ ver = NoVerify
    /\ tape = NoTape
    /\ fname = NoName
    /\ sel = NoSel

SinkForChunk ==
    /\ sw.pc = "none"
    /\ \E num_shards \in 0..MaxSinkShards : sw' = for_chunk(1, num_shards)
    /\ UNCHANGED <<hdr, cfg, cw, wr, obs, disk, bld, ext, ver, tape, fname, sel>>

SinkForChunkWithHeaders ==
    /\ sw.pc = "none"
    /\ \E data_shards \in 0..MaxSinkShards, total_shards \in 0..MaxSinkShards,
          padlen \in 0..MaxSinkPadlen :
         sw' = for_chunk_with_headers(1, data_shards, total_shards, padlen)
    /\ UNCHANGED <<hdr, cfg, cw, wr, obs, disk, bld, ext, ver, tape, fname, sel>>

\* a call of write_shards; the caller's shards are told apart by call and
\* output, and may be one too many
SinkWriteShards ==
    /\ sw.pc \in {"open", "error"}
    /\ sw.calls < MaxSinkCalls
    /\ \E len \in 0..MaxShardLen, count \in {Len(sw.outputs), Len(sw.outputs) + 1} :
         sw' = write_shards([sw EXCEPT !.pc = "open"],
                  [i \in 1..count |-> [j \in 1..len |-> 16 * (sw.calls + 1) + i]])
    /\ UNCHANGED <<hdr, cfg, cw, wr, obs, disk, bld, ext, ver, tape, fname, sel>>

SinkFinish ==
    /\ sw.pc \in {"open", "error"}
    /\ sw' = sink_finish(sw)
    /\ UNCHANGED <<hdr, cfg, cw, wr, obs, disk, bld, ext, ver, tape, fname, sel>>

NextSink == SinkForChunk \/ SinkForChunkWithHeaders \/ SinkWriteShards \/ SinkFinish

SpecSink == InitSink /\ [][NextSink]_vars

MaxBlockSize == 3

\* the longest buffer handed to one write of a tape output
MaxTapeWrite == 2

\* the most bytes written to a tape output by direct writes
MaxTapeTotal == 4

\* the most devices of a tape group
MaxTapes == 2

\* the most chunks written to a tape group
MaxTapeChunks == 3

\* TapeShardOutput::new on an empty device; written lists the bytes accepted
\* by write, in order
TapeShardOutputNew(block_size) ==
    [device |-> <<>>, current_position |-> 0, bytes_written |-> 0,
     block_size |-> block_size, write_buffer |-> <<>>, written |-> <<>>]

\* the bytes of the buffer that make whole blocks
WholeBlocks(buffer, block_size) == (Len(buffer) \div block_size) * block_size

\* Write::write of TapeShardOutput: whole blocks of the buffer go to the device
tape_write(o, buf) ==
    LET buffer == o.write_buffer \o buf
        n == WholeBlocks(buffer, o.block_size)
    IN  [o EXCEPT !.device = @ \o SubSeq(buffer, 1, n),
                  !.write_buffer = SubSeq(buffer, n + 1, Len(buffer)),
                  !.current_position = @ + n,
                  !.bytes_written = @ + n,
                  !.written = @ \o buf]

\* Write::flush of TapeShardOutput: a partial block is padded and written
tape_flush_NoAdvance(o) ==
    IF o.write_buffer # <<>>
    THEN [o EXCEPT !.device = @ \o o.write_buffer
                                 \o Zeros(o.block_size - Len(o.write_buffer)),
                   !.bytes_written = @ + o.block_size,
                   !.write_buffer = <<>>]
    ELSE o

tape_flush(o) ==
    IF o.write_buffer # <<>>
    THEN [o EXCEPT !.device = @ \o o.write_buffer
                                 \o Zeros(o.block_size - Len(o.write_buffer)),
                   !.current_position = @ + o.block_size,
                   !.bytes_written = @ + o.block_size,
                   !.write_buffer = <<>>]
    ELSE o

\* ShardOutput::finish of TapeShardOutput
tape_finish(o) == tape_flush(o)

\* RaitShardWriter::new
RaitNew(count, block_size) ==
    [pc |-> "group",
     tape_outputs |-> [i \in 1..count |-> TapeShardOutputNew(block_size)],
     shard_positions |-> <<>>, current_chunk |-> 0, total_shards |-> count,
     chunks |-> <<>>, err |-> "", k |-> 0, padlen |-> 0, headers_written |-> FALSE]

\* the loop of RaitShardWriter::write_shards from shard number from on
RECURSIVE RaitWriteFrom(_, _, _)
RaitWriteFrom(t, shards, from) ==
    IF from >= Len(shards) THEN t
    ELSE LET tape_index == from % Len(t.tape_outputs)
             o == t.tape_outputs[tape_index + 1]
         IN  RaitWriteFrom(
                 [t EXCEPT
                    !.shard_positions =
                        [key \in DOMAIN @ \cup {<<t.current_chunk, from>>} |->
                            IF key = <<t.current_chunk, from>>
                            THEN <<tape_index, o.current_position>>
                            ELSE @[key]],
                    !.tape_outputs[tape_index + 1] =
                        tape_flush(tape_write(o, shards[from + 1]))],
                 shards, from + 1)

\* RaitShardWriter::write_shards
rait_write_shards(t, shards) ==
    IF Len(shards) # t.total_shards
    THEN [t EXCEPT !.err = "InvalidParameters"]
    ELSE [RaitWriteFrom(t, shards, 0) EXCEPT
            !.current_chunk = @ + 1, !.chunks = Append(@, shards), !.err = ""]

\* RaitShardWriter::finish
rait_finish(t) ==
    [t EXCEPT !.pc = "finished",
              !.tape_outputs = [i \in DOMAIN @ |-> tape_finish(@[i])]]

\* TapeShardOutput::new on a device that holds data: it appends
TapeShardOutputReopen(o) ==
    [TapeShardOutputNew(o.block_size) EXCEPT
        !.device = o.device, !.current_position = Len(o.device),
        !.written = o.written]

\* StreamingShardWriter::for_tape_devices_with_headers over devices devices
for_tape_devices_with_headers(t, devices, chunk_number, data_shards, total_shards, padlen) ==
    IF devices # total_shards
    THEN [t EXCEPT !.err = "InvalidParameters"]
    ELSE [t EXCEPT
            !.pc = "stream",
            !.tape_outputs = [i \in 1..devices |-> TapeShardOutputReopen(@[i])],
            !.shard_positions =
                [key \in DOMAIN @ \cup {<<chunk_number, i>> : i \in 0..(devices - 1)} |->
                    IF key[1] = chunk_number
                    THEN <<key[2], Len(t.tape_outputs[key[2] + 1].device)>>
                    ELSE @[key]],
            !.current_chunk = chunk_number,
            !.k = data_shards, !.total_shards = total_shards, !.padlen = padlen,
            !.headers_written = FALSE, !.err = ""]

\* the headers of a tape sink as write_shards builds them
TapeHeaders(t) ==
    [i \in 1..Len(t.tape_outputs) |->
        ShardHeaderBytes(ZfecHeaderNew(t.k, t.total_shards, i - 1, t.padlen))]

\* StreamingShardWriter::write_shards on tape outputs: the headers once,
\* then each shard written and flushed
tape_write_shards(t, shards) ==
    IF Len(shards) # Len(t.tape_outputs)
    THEN [t EXCEPT !.err = "InvalidParameters"]
    ELSE IF \E i \in 1..Len(shards) : ~TapeHeaders(t)[i].ok
    THEN [t EXCEPT !.pc = "error", !.err = "InvalidHeader"]
    ELSE [t EXCEPT
            !.tape_outputs =
                [i \in 1..Len(shards) |->
                    tape_flush(tape_write(
                        IF t.headers_written THEN @[i]
                        ELSE tape_write(@[i], TapeHeaders(t)[i].bytes),
                        shards[i]))],
            !.chunks = Append(@, [i \in 1..Len(shards) |->
                                    (IF t.headers_written THEN <<>>
                                     ELSE TapeHeaders(t)[i].bytes) \o shards[i]]),
            !.headers_written = TRUE, !.err = ""]

\* StreamingShardWriter::finish on tape outputs
tape_sink_finish(t) ==
    [t EXCEPT !.pc = "devices",
              !.tape_outputs = [i \in DOMAIN @ |-> tape_finish(@[i])]]

\* the bytes a caller writes
TapeBytes == {0, 1}

\* the buffers a caller hands to one write
TapeBuffers ==
    UNION {[1..n -> TapeBytes] : n \in 0..MaxTapeWrite}

InitTape ==
    /\ hdr = IdleHdr
    /\ cfg = IdleCfg
    /\ cw = NewWriter(0, DEFAULT_COMPRESSION_LEVEL, 1, 1, FALSE)
    /\ wr = IdleWr
    /\ obs = IdleObs
    /\ disk = EmptyDisk
    /\ bld = IdleBld
    /\ ext = IdleExt
    /\ sw = NoSinks
    /\ ver = NoVerify
    /\ tape = NoTape
    /\ fname = NoName
    /\ sel = NoSel

\* one tape output is opened on its own
TapeNew ==
    /\ tape.pc = "off"
    /\ \E block_size \in 1..MaxBlockSize :
         tape' = [RaitNew(1, block_size) EXCEPT !.pc = "sink"]
    /\ UNCHANGED <<hdr, cfg, cw, wr, obs, disk, bld, ext, sw, ver, fname, sel>>

TapeWrite ==
    /\ tape.pc = "sink"
    /\ \E buf \in TapeBuffers :
         /\ Len(tape.tape_outputs[1].written) + Len(buf) <= MaxTapeTotal
         /\ tape' = [tape EXCEPT !.tape_outputs[1] = tape_write(@, buf)]
    /\ UNCHANGED <<hdr, cfg, cw, wr, obs, disk, bld, ext, sw, ver, fname, sel>>

TapeFlush ==
    /\ tape.pc = "sink"
    /\ tape' = [tape EXCEPT !.tape_outputs[1] = tape_flush(@)]
    /\ UNCHANGED <<hdr, cfg, cw, wr, obs, disk, bld, ext, sw, ver, fname, sel>>

TapeFinish ==
    /\ tape.pc = "sink"
    /\ tape' = [tape EXCEPT !.pc = "finished",
                            !.tape_outputs[1] = tape_finish(@)]
    /\ UNCHANGED <<hdr, cfg, cw, wr, obs, disk, bld, ext, sw, ver, fname, sel>>

\* a group of tape outputs is opened
RaitOpen ==
    /\ tape.pc = "off"
    /\ \E count \in 1..MaxTapes, block_size \in 1..MaxBlockSize :
         tape' = RaitNew(count, block_size)
    /\ UNCHANGED <<hdr, cfg, cw, wr, obs, disk, bld, ext, sw, ver, fname, sel>>

\* a call of write_shards on the group; the shards are told apart by chunk
\* and shard number, differ in length, and may be one too many
RaitWriteShards ==
    /\ tape.pc = "group"
    /\ tape.current_chunk < MaxTapeChunks
    /\ \E count \in {tape.total_shards, tape.total_shards + 1} :
       \E lens \in [1..count -> 0..MaxTapeWrite] :
         tape' = rait_write_shards(tape,
                    [i \in 1..count |->
                        [j \in 1..lens[i] |-> 16 * (tape.current_chunk + 1) + i]])
    /\ UNCHANGED <<hdr, cfg, cw, wr, obs, disk, bld, ext, sw, ver, fname, sel>>

RaitFinish ==
    /\ tape.pc = "group"
    /\ tape' = rait_finish(tape)
    /\ UNCHANGED <<hdr, cfg, cw, wr, obs, disk, bld, ext, sw, ver, fname, sel>>

\* empty devices are set up for a sink per chunk
DevicesOpen ==
    /\ tape.pc = "off"
    /\ \E count \in 1..MaxTapes, block_size \in 1..MaxBlockSize :
         tape' = [RaitNew(count, block_size) EXCEPT !.pc = "devices"]
    /\ UNCHANGED <<hdr, cfg, cw, wr, obs, disk, bld, ext, sw, ver, fname, sel>>

\* a sink is made for the next chunk; total_shards may be one too many
TapeSinkNew ==
    /\ tape.pc = "devices"
    /\ Len(tape.chunks) < MaxTapeChunks
    /\ \E total_shards \in {Len(tape.tape_outputs), Len(tape.tape_outputs) + 1},
          data_shards \in 1..Len(tape.tape_outputs), padlen \in {0} :
         tape' = for_tape_devices_with_headers(tape, Len(tape.tape_outputs),
                    Len(tape.chunks), data_shards, total_shards, padlen)
    /\ UNCHANGED <<hdr, cfg, cw, wr, obs, disk, bld, ext, sw, ver, fname, sel>>

\* the one call of write_shards a chunk's sink gets
TapeSinkWriteShards ==
    /\ tape.pc = "stream"
    /\ ~tape.headers_written
    /\ \E lens \in [1..Len(tape.tape_outputs) -> 0..MaxTapeWrite] :
         tape' = tape_write_shards(tape,
                    [i \in 1..Len(tape.tape_outputs) |->
                        [j \in 1..lens[i] |-> 16 * (tape.current_chunk + 1) + i]])
    /\ UNCHANGED <<hdr, cfg, cw, wr, obs, disk, bld, ext, sw, ver, fname, sel>>

TapeSinkFinish ==
    /\ tape.pc = "stream"
    /\ tape.headers_written
    /\ tape' = tape_sink_finish(tape)
    /\ UNCHANGED <<hdr, cfg, cw, wr, obs, disk, bld, ext, sw, ver, fname, sel>>

NextTape ==
    \/ TapeNew \/ TapeWrite \/ TapeFlush \/ TapeFinish
    \/ RaitOpen \/ RaitWriteShards \/ RaitFinish
    \/ DevicesOpen \/ TapeSinkNew \/ TapeSinkWriteShards \/ TapeSinkFinish

SpecTape == InitTape /\ [][NextTape]_vars

\* ------------------------------------------------------------------------
\* Properties of tape outputs (SpecTape)
\* ------------------------------------------------------------------------

\* s is the beginning of t
IsPrefix(s, t) == Len(s) <= Len(t) /\ SubSeq(t, 1, Len(s)) = s

\* C23: before finish, the device of a tape output holds only written bytes,
\* in write order, and a whole number of blocks.
C23_PadOnlyOnFinish ==
    tape.pc = "sink" =>
        /\ IsPrefix(tape.tape_outputs[1].device, tape.tape_outputs[1].written)
        /\ Len(tape.tape_outputs[1].device) % tape.tape_outputs[1].block_size = 0

\* the device of a tape output holds a whole number of blocks at all times
TapeWholeBlocks ==
    tape.pc # "off" =>
        \A i \in DOMAIN tape.tape_outputs :
            Len(tape.tape_outputs[i].device) % tape.tape_outputs[i].block_size = 0

\* the length a shard of n bytes takes on a device of the given block size
PaddedLen(n, block_size) == ((n + block_size - 1) \div block_size) * block_size

\* the padded length of shard number i of the first c chunks written
RECURSIVE EarlierShards(_, _)
EarlierShards(c, i) ==
    IF c = 0 THEN 0
    ELSE EarlierShards(c - 1, i)
            + PaddedLen(Len(tape.chunks[c][i + 1]), tape.tape_outputs[i + 1].block_size)

\* shard i of chunk c lies on device i at the recorded position
ShardPlaced(c, i) ==
    /\ <<c, i>> \in DOMAIN tape.shard_positions
    /\ tape.shard_positions[<<c, i>>][1] = i
    /\ LET position == tape.shard_positions[<<c, i>>][2]
           shard == tape.chunks[c + 1][i + 1]
       IN  /\ position = EarlierShards(c, i)
           /\ SubSeq(tape.tape_outputs[i + 1].device, position + 1,
                     position + Len(shard)) = shard

MaxBaseLen == 3

\* the characters of base names
BaseChars == {"a", ".", "c", "s", "/"}

\* the base names under test
BaseNames == UNION {[1..n -> BaseChars] : n \in 1..MaxBaseLen}

\* the chunk numbers under test, from the range 1..999
NameChunks == {1, 9, 10, 42, 100, 999}

\* the shard numbers under test, from the range 0..99
NameShards == {0, 5, 10, 99}

DecimalDigits == <<"0", "1", "2", "3", "4", "5", "6", "7", "8", "9">>

\* the decimal digits of n, without padding
RECURSIVE Decimal(_)
Decimal(n) ==
    IF n < 10 THEN <<DecimalDigits[n + 1]>>
    ELSE Decimal(n \div 10) \o <<DecimalDigits[(n % 10) + 1]>>

\* format!("{:0width$}", n)
ZeroPadded(n, width) ==
    [i \in 1..(width - Len(Decimal(n))) |-> "0"] \o Decimal(n)

\* format_shard_path: "{}.c{:03}.s{:02}"
format_shard_path(output_base, chunk_number, shard_number) ==
    output_base \o <<".", "c">> \o ZeroPadded(chunk_number, 3)
                \o <<".", "s">> \o ZeroPadded(shard_number, 2)

\* Path::file_name: what follows the last separator
file_name(path) ==
    LET seps == {i \in 1..Len(path) : path[i] = "/"}
    IN  IF seps = {} THEN path
        ELSE SubSeq(path, (CHOOSE i \in seps : \A j \in seps : j <= i) + 1, Len(path))

\* the 0-based positions where "." followed by c starts in s
MarkerPositions(s, c) ==
    {i \in 0..(Len(s) - 2) : s[i + 1] = "." /\ s[i + 2] = c}

\* the value of a digit character
DigitValue(ch) == (CHOOSE d \in 1..10 : DecimalDigits[d] = ch) - 1

IsDigit(ch) == \E d \in 1..10 : DecimalDigits[d] = ch

RECURSIVE DigitsValue(_)
DigitsValue(s) ==
    IF Len(s) = 0 THEN 0
    ELSE 10 * DigitsValue(SubSeq(s, 1, Len(s) - 1)) + DigitValue(s[Len(s)])

\* str::parse::<usize>: decimal digits, after an optional plus sign
ParseUsize(s) ==
    LET digits == IF Len(s) > 0 /\ s[1] = "+" THEN Tail(s) ELSE s
    IN  IF Len(digits) > 0 /\ \A i \in 1..Len(digits) : IsDigit(digits[i])
        THEN [ok |-> TRUE, value |-> DigitsValue(digits)]
        ELSE [ok |-> FALSE, value |-> 0]

NameErr == [ok |-> FALSE, chunk_number |-> 0, shard_number |-> 0]

\* c_pos is the first ".c" of the name
FirstMarker(ps) == CHOOSE i \in ps : \A j \in ps : i <= j

\* s_pos is the last ".s" of the name
LastMarker(ps) == CHOOSE i \in ps : \A j \in ps : j <= i

\* parse_shard_filename once c_pos and s_pos are found
ParseBetween(filename, c_pos, s_pos) ==
    IF s_pos <= c_pos THEN NameErr
    ELSE IF ~ParseUsize(SubSeq(filename, c_pos + 3, s_pos)).ok THEN NameErr
    ELSE IF ~ParseUsize(SubSeq(filename, s_pos + 3, Len(filename))).ok THEN NameErr
    ELSE [ok |-> TRUE,
          chunk_number |-> ParseUsize(SubSeq(filename, c_pos + 3, s_pos)).value,
          shard_number |-> ParseUsize(SubSeq(filename, s_pos + 3, Len(filename))).value]

\* parse_shard_filename
parse_shard_filename(filename) ==
    IF MarkerPositions(filename, "c") = {} THEN NameErr
    ELSE IF MarkerPositions(filename, "s") = {} THEN NameErr
    ELSE ParseBetween(filename, FirstMarker(MarkerPositions(filename, "c")),
                      LastMarker(MarkerPositions(filename, "s")))

InitName ==
    /\ hdr = IdleHdr
    /\ cfg = IdleCfg
    /\ cw = NewWriter(0, DEFAULT_COMPRESSION_LEVEL, 1, 1, FALSE)
    /\ wr = IdleWr
    /\ obs = IdleObs
    /\ disk = EmptyDisk
    /\ bld = IdleBld
    /\ ext = IdleExt
    /\ sw = NoSinks
    /\ ver = NoVerify
    /\ tape = NoTape
    /\ sel = NoSel
    /\ \E base \in BaseNames, chunk \in NameChunks, shard \in NameShards :
         fname = [NoName EXCEPT !.pc = "input", !.base = base, !.chunk = chunk,
                                !.shard = shard]

\* the writer names the shard file
FormatName ==
    /\ fname.pc = "input"
    /\ fname' = [fname EXCEPT !.pc = "named",
                   !.path = format_shard_path(fname.base, fname.chunk, fname.shard)]
    /\ UNCHANGED <<hdr, cfg, cw, wr, obs, disk, bld, ext, sw, ver, tape, sel>>

\* ShardData::from_file classifies the file by its name
ParseName ==
    /\ fname.pc = "named"
    /\ fname' = [fname EXCEPT !.pc = "parsed",
                   !.parsed = parse_shard_filename(file_name(fname.path))]
    /\ UNCHANGED <<hdr, cfg, cw, wr, obs, disk, bld, ext, sw, ver, tape, sel>>

NextName == FormatName \/ ParseName

SpecName == InitName /\ [][NextName]_vars

\* C25: parsing the name formatted from (base, chunk, shard) returns exactly
\* (chunk, shard), for every base name, chunk in 1..999 and shard in 0..99.
C25_NameRoundTrip ==
    fname.pc = "parsed" =>
        fname.parsed = [ok |-> TRUE, chunk_number |-> fname.chunk,
                        shard_number |-> fname.shard]

\* the round trip holds for the base names whose last component has no ".c"
NameRoundTripPlainBase ==
    fname.pc = "parsed" /\ MarkerPositions(file_name(fname.base), "c") = {} =>
        fname.parsed = [ok |-> TRUE, chunk_number |-> fname.chunk,
                        shard_number |-> fname.shard]

\* ------------------------------------------------------------------------
\* archive/extract.rs: the filters of extract_all_chunks (SpecSelect)
\* ------------------------------------------------------------------------

\* the most components of an entry's path
MaxPathDepth == 3

\* the longest include or exclude pattern
MaxPatternLen == 2

\* the largest strip_components
MaxStrip == 3

\* the names of path components
ComponentNames == {"a", "b", "["}

\* the paths of tar entries, as their components
EntryPaths == UNION {[1..n -> ComponentNames] : n \in 1..MaxPathDepth}

\* the characters of patterns
PatternChars == {"a", "b", "/", "*", "?", "["}

\* the patterns under test: no recursive wildcard
Patterns ==
    {p \in UNION {[1..n -> PatternChars] : n \in 1..MaxPatternLen} :
        \A i \in 1..(Len(p) - 1) : ~(p[i] = "*" /\ p[i + 1] = "*")}

\* the exclude patterns used together with an include pattern
FewPatterns == {<<"a">>, <<"*">>, <<"[">>, <<"b", "/">>}

\* path.to_string_lossy(): the components joined by the separator
RECURSIVE path_str(_)
path_str(path) ==
    IF Len(path) = 0 THEN <<>>
    ELSE IF Len(path) = 1 THEN <<path[1]>>
    ELSE <<path[1], "/">> \o path_str(Tail(path))

\* str::contains
Contains(s, f) ==
    \E i \in 0..(Len(s) - Len(f)) : SubSeq(s, i + 1, i + Len(f)) = f

\* glob::Pattern::new succeeds: with no closing bracket among the pattern
\* characters, an opening bracket is an invalid range
GlobParses(p) == \A i \in 1..Len(p) : p[i] # "["

\* Pattern::matches with the default options: ? is any character, * any
\* sequence of characters, separators included
RECURSIVE GlobMatches(_, _)
GlobMatches(p, s) ==
    IF Len(p) = 0 THEN Len(s) = 0
    ELSE IF p[1] = "*" THEN \E n \in 0..Len(s) : GlobMatches(Tail(p), Drop(s, n))
    ELSE IF Len(s) = 0 THEN FALSE
    ELSE IF p[1] = "?" THEN GlobMatches(Tail(p), Tail(s))
    ELSE p[1] = s[1] /\ GlobMatches(Tail(p), Tail(s))

PatternSelects_GlobOnly(f, s) ==
    GlobParses(f) /\ GlobMatches(f, s)

\* path_str.contains(f) || Pattern::new(f).map(|p| p.matches(..)).unwrap_or(false)
PatternSelects(f, s) ==
    Contains(s, f) \/ (GlobParses(f) /\ GlobMatches(f, s))

\* iter().any(..) over a list of patterns
AnySelects(patterns, s) ==
    \E i \in 1..Len(patterns) : PatternSelects(patterns[i], s)

StripSkips_Fewer(components, strip_components) ==
    strip_components > 0 /\ Len(components) < strip_components

\* the entry is skipped for lack of path components
StripSkips(components, strip_components) ==
    strip_components > 0 /\ Len(components) <= strip_components

\* components[strip_components..] collected into a path
stripped_path(components, strip_components) ==
    IF strip_components > 0
    THEN SubSeq(components, strip_components + 1, Len(components))
    ELSE components

\* the loop body of extract_all_chunks for one entry whose path is readable
select_entry(s) ==
    IF s.file_filters # <<>> /\ ~AnySelects(s.file_filters, path_str(s.path))
    THEN [s EXCEPT !.pc = "done", !.outcome = "not in file filter"]
    ELSE IF AnySelects(s.exclude_patterns, path_str(s.path))
    THEN [s EXCEPT !.pc = "done", !.outcome = "excluded"]
    ELSE IF StripSkips(s.path, s.strip_components)
    THEN [s EXCEPT !.pc = "done", !.outcome = "not enough components"]
    ELSE [s EXCEPT !.pc = "done", !.outcome = "unpacked",
                   !.output_path = stripped_path(s.path, s.strip_components)]

\* the filter settings under test: one include pattern, one exclude pattern,
\* or an include pattern with one of a few exclude patterns
FilterSettings ==
    {<<<<>>, <<>>>>}
        \cup {<<<<p>>, <<>>>> : p \in Patterns}
        \cup {<<<<>>, <<p>>>> : p \in Patterns}
        \cup {<<<<p>>, <<q>>>> : p \in FewPatterns, q \in FewPatterns}

InitSelect ==
    /\ hdr = IdleHdr
    /\ cfg = IdleCfg
    /\ cw = NewWriter(0, DEFAULT_COMPRESSION_LEVEL, 1, 1, FALSE)
    /\ wr = IdleWr
    /\ obs = IdleObs
    /\ disk = EmptyDisk
    /\ bld = IdleBld
    /\ ext = IdleExt
    /\ sw = NoSinks
    /\ ver = NoVerify
    /\ tape = NoTape
    /\ fname = NoName
    /\ \E path \in EntryPaths, fs \in FilterSettings, strip \in 0..MaxStrip :
         sel = [NoSel EXCEPT !.pc = "entry", !.path = path,
                             !.file_filters = fs[1], !.exclude_patterns = fs[2],
                             !.strip_components = strip]

\* one entry of the tar stream goes through the loop body
SelectEntry ==
    /\ sel.pc = "entry"
    /\ sel' = select_entry(sel)
    /\ UNCHANGED <<hdr, cfg, cw, wr, obs, disk, bld, ext, sw, ver, tape, fname>>

NextSelect == SelectEntry

SpecSelect == InitSelect /\ [][NextSelect]_vars

\* ------------------------------------------------------------------------
\* Properties of entry selection (SpecSelect)
\* ------------------------------------------------------------------------

\* the entry's path as a string
EntryStr == path_str(sel.path)

\* pattern f is part of the entry's path string
IsSubstring(f) ==
    \E before \in 0..Len(EntryStr), after \in 0..Len(EntryStr) :
        /\ before + Len(f) + after = Len(EntryStr)
        /\ \A i \in 1..Len(f) : EntryStr[before + i] = f[i]

\* the glob of pattern f, which parses, matches the entry's path
GlobHits(f) == GlobParses(f) /\ GlobMatches(f, EntryStr)

\* the entry was let through by the include patterns
Included == sel.outcome # "not in file filter"

\* C26 as stated: a pattern that parses as a glob selects an entry exactly
\* when the glob matches its path, and a pattern that does not parse selects
\* it exactly when it is a substring of the path.
C26_GlobElseSubstring ==
    sel.pc = "done" =>
        /\ Len(sel.file_filters) = 1 =>
             (Included <=> IF GlobParses(sel.file_filters[1])
                           THEN GlobHits(sel.file_filters[1])
                           ELSE IsSubstring(sel.file_filters[1]))
        /\ Len(sel.exclude_patterns) = 1 /\ Included =>
             (sel.outcome = "excluded"
                <=> IF GlobParses(sel.exclude_patterns[1])
                    THEN GlobHits(sel.exclude_patterns[1])
                    ELSE IsSubstring(sel.exclude_patterns[1]))

\* C26, amended: a pattern selects an entry exactly when it is a substring of
\* the entry's path or parses as a glob that matches the path.
C26_SubstringOrGlob ==
    sel.pc = "done" =>
        /\ Len(sel.file_filters) = 1 =>
             (Included <=> \/ IsSubstring(sel.file_filters[1])
                           \/ GlobHits(sel.file_filters[1]))
        /\ Len(sel.exclude_patterns) = 1 /\ Included =>
             (sel.outcome = "excluded"
                <=> \/ IsSubstring(sel.exclude_patterns[1])
                    \/ GlobHits(sel.exclude_patterns[1]))

\* an entry unpacked because its include pattern, a glob that parses and does
\* not match, is part of its path
C26_Witness ==
    /\ sel.pc = "done"
    /\ sel.outcome = "unpacked"
    /\ Len(sel.file_filters) = 1
    /\ GlobParses(sel.file_filters[1])
    /\ ~GlobMatches(sel.file_filters[1], EntryStr)
    /\ IsSubstring(sel.file_filters[1])

\* C27 as stated: with strip_components = n an entry that passed the filters
\* is skipped exactly when its path has fewer than n components, and is
\* otherwise unpacked under its path without the first n components.
C27_SkipsFewerThanN ==
    sel.pc = "done" /\ sel.outcome \notin {"not in file filter", "excluded"} =>
        IF Len(sel.path) < sel.strip_components
        THEN sel.outcome = "not enough components"
        ELSE /\ sel.outcome = "unpacked"
             /\ sel.output_path
                  = SubSeq(sel.path, sel.strip_components + 1, Len(sel.path))

\* C27, amended: with strip_components = n > 0 an entry that passed the
\* filters is skipped exactly when its path has at most n components, and is
\* otherwise unpacked under its path without the first n components; with
\* n = 0 every such entry is unpacked under its own path.
C27_SkipsAtMostN ==
    sel.pc = "done" /\ sel.outcome \notin {"not in file filter", "excluded"} =>
        IF sel.strip_components > 0 /\ Len(sel.path) <= sel.strip_components
        THEN sel.outcome = "not enough components"
        ELSE /\ sel.outcome = "unpacked"
             /\ sel.output_path
                  = SubSeq(sel.path, sel.strip_components + 1, Len(sel.path))

\* an entry whose path has exactly strip_components components is skipped
C27_Witness ==
    /\ sel.pc = "done"
    /\ sel.strip_components > 1
    /\ Len(sel.path) = sel.strip_components
    /\ sel.outcome = "not enough components"

\* ------------------------------------------------------------------------
\* Termination of Write::write (SpecCW)
\* ------------------------------------------------------------------------

\* C28: every write of a non-empty buffer terminates, for every chunk_size and
\* in both modes: an iteration of the loop that starts in an empty chunk has
\* room for a byte of the buffer, so the loop never rotates chunks twice in a
\* row and each pair of iterations consumes part of the buffer.
C28_WriteMakesProgress ==
    wr.pc = "loop" /\ cw.bytes_in_current_chunk = 0 => ToWrite(World) > 0

\* the same for the writers whose chunk_size is at least 1
WriteMakesProgressPositive ==
    wr.pc = "loop" /\ cw.bytes_in_current_chunk = 0 /\ cw.chunk_size >= 1
        => ToWrite(World) > 0

\* ------------------------------------------------------------------------
\* decode_chunk on the shard files a caller supplies (SpecDecode)
\* ------------------------------------------------------------------------

\* the writers whose chunks are decoded from supplied shards
DecodeConfigs == {c \in WriterConfigs : c.chunk_size = MaxChunkSize}

InitDecode ==
    /\ cfg \in DecodeConfigs
    /\ cw = NewWriter(cfg.chunk_size, cfg.compression_level, cfg.data_shards,
                      cfg.parity_shards, cfg.no_compression)
    /\ wr = IdleWr
    /\ obs = IdleObs
    /\ disk = EmptyDisk
    /\ hdr = IdleHdr
    /\ bld = IdleBld
    /\ ext = IdleExt
    /\ sw = NoSinks
    /\ ver = NoVerify
    /\ tape = NoTape
    /\ fname = NoName
    /\ sel = NoSel

\* the shard lists a caller may supply for a chunk of m shards: data_shards or
\* one more files in file name order, shard numbers up to m (one past the
\* last shard), the same number possibly twice
SuppliedLists(data_shards, m) ==
    {ns \in UNION {[1..n -> 0..m] : n \in data_shards..(data_shards + 1)} :
        \A i \in 1..(Len(ns) - 1) : ns[i] <= ns[i + 1]}

\* the ShardData of the supplied files: a file numbered past the last shard
\* holds the bytes of shard 0
SuppliedShards(c, ns) ==
    [j \in 1..Len(ns) |->
        [chunk_number |-> disk.sinks[c].chunk, shard_number |-> ns[j],
         data |-> disk.sinks[c].payloads[IF ns[j] < disk.sinks[c].m
                                         THEN ns[j] + 1 ELSE 1]]]

\* decode_chunk on a supplied list of shards of the first chunk
DecodeSupplied ==
    /\ wr.pc = "finished"
    /\ ext.pc = "off"
    /\ Len(disk.sinks) >= 1
    /\ \E ns \in SuppliedLists(cfg.data_shards, disk.sinks[1].m) :
         ext' = [ext EXCEPT
                   !.pc = "decoded", !.chunk = 1, !.picked = ns,
                   !.out = decode_chunk(SuppliedShards(1, ns), cfg.data_shards,
                                        cfg.parity_shards,
                                        cw.chunks_created[1].compressed_size)]
    /\ UNCHANGED <<hdr, cfg, cw, wr, obs, disk, bld, sw, ver, tape, fname, sel>>

NextDecode == CwWrite \/ WriteLoop \/ CwFinish \/ DecodeSupplied

SpecDecode == InitDecode /\ [][NextDecode]_vars

\* the distinct shard numbers below m among the supplied ones
CoveredIndices ==
    {ext.picked[j] : j \in 1..Len(ext.picked)} \cap 0..(disk.sinks[1].m - 1)

\* C29: decode_chunk returns InsufficientShards whenever the supplied shards
\* cover fewer than k distinct shard numbers in 0..m-1, even when k or more
\* files are supplied.
C29_InsufficientByIndices ==
    ext.pc = "decoded" /\ Cardinality(CoveredIndices) < cfg.data_shards =>
        ~ext.out.ok /\ ext.out.err = "InsufficientShards"

\* supplied shards that cover fewer than k numbers are never decoded
UncoveredNeverDecoded ==
    ext.pc = "decoded" /\ Cardinality(CoveredIndices) < cfg.data_shards =>
        ~ext.out.ok

\* supplied shards that cover k numbers give back the chunk
CoveredDecoded ==
    ext.pc = "decoded" /\ Cardinality(CoveredIndices) >= cfg.data_shards =>
        ext.out.ok /\ ext.out.bytes = OriginalChunkBytes(disk.sinks[1].chunk)

\* ------------------------------------------------------------------------
\* Extraction without the index and the order of discovery (SpecOrder)
\* ------------------------------------------------------------------------

\* the outcome of an extraction: success or failure and the recovered files
Outcome(res) == [ok |-> res.ok, tree |-> res.tree]

\* every chunk that shards_by_chunk.values().next() may yield gives the
\* outcome extract had
SameWhateverChunkFirst ==
    ext.pc = "extracted" /\ ~UsesIndex =>
        \A first \in FirstChunks :
            Outcome(extract_from_shards_only(disk, first)) = Outcome(ext.res)


\* the shards of every chunk listed from the r-th one on, the earlier ones last
Rotated30(shards_by_chunk, r) ==
    [c \in DOMAIN shards_by_chunk |->
        LET n == Len(shards_by_chunk[c])
        IN  [j \in 1..n |-> shards_by_chunk[c][((j - 1 + r) % n) + 1]]] @@ <<>>

\* the first shard file of the first or of the last chunk is cut down to its
\* first byte, as by an interrupted copy: too short to hold a header
ClipShard ==
    /\ bld.pc = "done"
    /\ ext.pc = "off"
    /\ ver.pc = "off"
    /\ \A key \in DOMAIN disk.shards : ShardComplete(key[1], key[2])
    /\ \E C \in ChunkSets : \E key \in DOMAIN disk.shards :
         /\ C = {key[1]} /\ key[2] = 0
         /\ disk' = [disk EXCEPT !.shards[key] = Take(disk.shards[key], 1)]
    /\ UNCHANGED <<hdr, cfg, cw, wr, obs, bld, ext, sw, ver, tape, fname, sel>>

NextOrder ==
    \/ BldCreate \/ BldBeginFile \/ BldWriteData \/ BldWritePad \/ BldEndFile
    \/ BldTarFinish \/ BldFinish \/ WriteLoop
    \/ DeleteShards \/ DeleteIndex \/ ClipShard \/ Extract

SpecOrder == InitRecover /\ [][NextOrder]_vars

\* C30: extraction without the index gives the same outcome whichever chunk
\* comes first and whichever shard of each chunk is listed first, that is,
\* whichever header supplies (k, m) and each chunk's padlen.
C30_OrderIndependent ==
    ext.pc = "extracted" /\ ~UsesIndex =>
        \A first \in FirstChunks, r \in 0..(cfg.data_shards + cfg.parity_shards - 1) :
            Outcome(ExtractDiscovered(Rotated30(discover_shards(disk), r), first))
                = Outcome(ext.res)


\* the shard files on disk either all carry a readable header or none does
UniformHeaders ==
    \A c \in DOMAIN discover_shards(disk) :
        \A j \in 1..Len(discover_shards(disk)[c]) :
            discover_shards(disk)[c][j].header.ok
                = discover_shards(disk)[CHOOSE x \in DOMAIN discover_shards(disk) : TRUE][1].header.ok

\* among shard files whose headers are all readable or all unreadable, the
\* order of discovery does not change the outcome
OrderIndependentUniformHeaders ==
    ext.pc = "extracted" /\ ~UsesIndex /\ DOMAIN disk.shards # {} /\ UniformHeaders =>
        \A first \in FirstChunks, r \in 0..(cfg.data_shards + cfg.parity_shards - 1) :
            Outcome(ExtractDiscovered(Rotated30(discover_shards(disk), r), first))
                = Outcome(ext.res)

====
